---- MODULE Spec2Model ----
(***************************************************************************)
(* A model of the path stroker of gsk/gskpathstroke.c (the orchestrator    *)
(* StrokeData, its joins, caps and subdivider) and of the asynchronous     *)
(* loader of ottie/ottiecreation.c.                                        *)
(*                                                                         *)
(* Geometry is exact integer arithmetic on a grid of Grid units per        *)
(* user-space unit.  A tangent or a normal is kept as the primitive        *)
(* integer vector of its direction; every test the code makes on a         *)
(* normalised vector or on an angle is made on that direction exactly      *)
(* (cross and dot products).  The input streams are drawn from families    *)
(* for which every offset, intersection and split point is a grid point.   *)
(***************************************************************************)
EXTENDS Integers, Sequences, FiniteSets, TLC

VARIABLES stroke, sd, bufs, builder, walk, ev, sub, ottie, trim

vars == <<stroke, sd, bufs, builder, walk, ev, sub, ottie, trim>>

(***************************************************************************)
(* Bounds of the model and the grid.                                       *)
(***************************************************************************)
MaxSegments == 3
MaxMoves == 2

\* the calls of ottie_creation_load_file on one creation
MaxLoads == 3

\* grid units per user-space unit: with it every join, clip and intersection
\* point of the direction family below is a grid point
Grid == 8 * 15

(***************************************************************************)
(* Integer helpers.                                                        *)
(***************************************************************************)
Abs(a) == IF a < 0 THEN -a ELSE a

Sgn(a) == IF a < 0 THEN -1 ELSE IF a > 0 THEN 1 ELSE 0

RECURSIVE GCD(_, _)
GCD(a, b) == IF b = 0 THEN Abs(a) ELSE GCD(b, a % Abs(b))

\* a / b where the quotient is an integer; anything else is outside the
\* exact families and stops the evaluation
Div(a, b) ==
  LET n == IF b < 0 THEN -a ELSE a
      d == Abs(b)
  IN  IF n % d = 0 THEN n \div d ELSE CHOOSE q \in {} : TRUE

ISqrt(n) == CHOOSE k \in 0..n : k * k = n

(***************************************************************************)
(* graphene points and vectors.                                            *)
(***************************************************************************)
Pt(x, y) == <<x, y>>

VAdd(p, q) == <<p[1] + q[1], p[2] + q[2]>>

VSub(p, q) == <<p[1] - q[1], p[2] - q[2]>>

VDot(p, q) == p[1] * q[1] + p[2] * q[2]

VCross(p, q) == p[1] * q[2] - p[2] * q[1]

VNorm2(p) == VDot(p, p)

\* graphene_vec2_normalize: the direction of v as a primitive integer vector
Direction(v) ==
  LET g == GCD(v[1], v[2])
  IN  IF g = 0 THEN <<0, 0>> ELSE <<v[1] \div g, v[2] \div g>>

\* the length of a direction of the exact families
VLen(v) == ISqrt(VNorm2(v))

get_tangent(p0, p1) == Direction(<<p1[1] - p0[1], p1[2] - p0[2]>>)

get_normal(p0, p1) == Direction(<<p0[2] - p1[2], p1[1] - p0[1]>>)

\* scale_point of gskcurve.c: p displaced by the distance d along the unit vector of n
scale_point(p, n, d) ==
  <<p[1] + Div(n[1] * d, VLen(n)), p[2] + Div(n[2] * d, VLen(n))>>

(***************************************************************************)
(* angle_between.  The result is kept as the sine and cosine numerators    *)
(* and the sign of the float the code returns.  The raw difference of two  *)
(* atan2 values is in (-2 pi, 2 pi); it is stored in a float, and the      *)
(* float nearest to pi is larger than M_PI, so a raw +pi is taken for      *)
(* "> M_PI" and wrapped to just above -pi, and a raw -pi to just below pi. *)
(***************************************************************************)
\* atan2 (t2) > atan2 (t1) for opposite directions
RawReversalPositive(t1) == t1[2] < 0 \/ (t1[2] = 0 /\ t1[1] > 0)

\* a variant of AngleSign that takes every reversal for a turn of +pi
AngleSign_reversal_positive(t1, t2) ==
  LET cr == VCross(t1, t2)
  IN  IF cr # 0 THEN Sgn(cr)
      ELSE IF VDot(t1, t2) >= 0 THEN 0
      ELSE 1

\* the sign of the float angle_between returns
AngleSign(t1, t2) ==
  LET cr == VCross(t1, t2)
  IN  IF cr # 0 THEN Sgn(cr)
      ELSE IF VDot(t1, t2) >= 0 THEN 0
      ELSE IF RawReversalPositive(t1) THEN -1 ELSE 1

angle_between(t1, t2) ==
  [ sin |-> VCross(t1, t2), cos |-> VDot(t1, t2),
    len2 |-> VNorm2(t1) * VNorm2(t2), sign |-> AngleSign(t1, t2) ]

\* tan (5 degrees) = 0.08748866..., no direction pair of the families is
\* closer to 5 degrees than this rational is
Tan5Num == 8749
Tan5Den == 100000

\* a variant of IsStraight that takes the bound itself for straight
IsStraight_inclusive(angle) ==
  /\ angle.cos > 0
  /\ Abs(angle.sin) * Tan5Den <= Tan5Num * angle.cos

\* fabs (angle) < DEG_TO_RAD (5)
IsStraight(angle) ==
  /\ angle.cos > 0
  /\ Abs(angle.sin) * Tan5Den < Tan5Num * angle.cos

(***************************************************************************)
(* GskCurve (gsk/gskcurveprivate.h): a tagged value, a line with two       *)
(* points, a cubic with four, a conic with three points and a weight.      *)
(* A curve parameter t is the fraction <<n, d>>.                           *)
(***************************************************************************)
LineCurve(p0, p1) == [op |-> "line", pts |-> <<p0, p1>>, w |-> 0]

CubicCurve(p0, p1, p2, p3) == [op |-> "curve", pts |-> <<p0, p1, p2, p3>>, w |-> 0]

ConicCurve(p0, p1, p2, weight) == [op |-> "conic", pts |-> <<p0, p1, p2>>, w |-> weight]

\* the curve memset leaves in StrokeData
ZeroCurve == [op |-> "move", pts |-> <<Pt(0, 0)>>, w |-> 0]

gsk_curve_get_start_point(c) == c.pts[1]

gsk_curve_get_end_point(c) == c.pts[Len(c.pts)]

\* the first control-polygon leg from index i on (step +1 or -1) that is not degenerate
RECURSIVE FirstLeg(_, _, _)
FirstLeg(pts, i, step) ==
  IF i + step < 1 \/ i + step > Len(pts) THEN <<0, 0>>
  ELSE IF pts[i + step] # pts[i] /\ step = 1 THEN get_tangent(pts[i], pts[i + 1])
  ELSE IF pts[i + step] # pts[i] THEN get_tangent(pts[i - 1], pts[i])
  ELSE FirstLeg(pts, i + step, step)

gsk_curve_get_start_tangent(c) == FirstLeg(c.pts, 1, 1)

gsk_curve_get_end_tangent(c) == FirstLeg(c.pts, Len(c.pts), -1)

gsk_curve_reverse(c) ==
  [c EXCEPT !.pts = [i \in 1..Len(c.pts) |-> c.pts[Len(c.pts) + 1 - i]]]

\* p + t (q - p)
Lerp(p, q, t) ==
  <<p[1] + Div((q[1] - p[1]) * t[1], t[2]), p[2] + Div((q[2] - p[2]) * t[1], t[2])>>

\* gsk_curve_split: the two parts of c before and after the parameter t
gsk_curve_split(c, t) ==
  LET p == c.pts
      Cubic3(abbc, bccd, ab, cd) ==
        <<CubicCurve(p[1], ab, abbc, Lerp(abbc, bccd, t)),
          CubicCurve(Lerp(abbc, bccd, t), bccd, cd, p[4])>>
      Cubic2(ab, bc, cd) == Cubic3(Lerp(ab, bc, t), Lerp(bc, cd, t), ab, cd)
      \* a conic of weight 1 is a quadratic Bezier curve and so are its parts;
      \* the streams hold no other conic
      w2 == IF c.w = 1 THEN 1 ELSE CHOOSE x \in {} : TRUE
      Conic2(ab, bc) ==
        <<ConicCurve(p[1], ab, Lerp(ab, bc, t), w2), ConicCurve(Lerp(ab, bc, t), bc, p[3], w2)>>
  IN  IF c.op = "line" THEN
        <<LineCurve(p[1], Lerp(p[1], p[2], t)), LineCurve(Lerp(p[1], p[2], t), p[2])>>
      ELSE IF c.op = "curve" THEN
        Cubic2(Lerp(p[1], p[2], t), Lerp(p[2], p[3], t), Lerp(p[3], p[4], t))
      ELSE
        Conic2(Lerp(p[1], p[2], t), Lerp(p[2], p[3], t))

\* t as a parameter of the part of the curve after t0
ParamAfter(t0, t) ==
  LET n == t[1] * t0[2] - t0[1] * t[2]
      d == t[2] * (t0[2] - t0[1])
  IN  <<n \div GCD(n, d), d \div GCD(n, d)>>

\* gsk_curve_segment: the part of c between the parameters t0 and t1, by two splits
gsk_curve_segment(c, t0, t1) ==
  LET Upto(tail) ==
        IF t1[1] = t1[2] THEN tail ELSE gsk_curve_split(tail, ParamAfter(t0, t1))[1]
  IN  Upto(IF t0[1] = 0 THEN c ELSE gsk_curve_split(c, t0)[2])

\* gsk_curve_offset.  A line is displaced along its normal.  The end points
\* of a cubic or a conic are displaced along the normals of the first and
\* the last leg; the inner control points are the intersections of the
\* displaced legs, or the displaced leg end where two legs are parallel.
OffsetLeg(p0, p1, d) ==
  <<scale_point(p0, get_normal(p0, p1), d), scale_point(p1, get_normal(p0, p1), d)>>

\* the intersection of the lines through a1, a2 and through b1, b2 (FALSE: parallel)
LegIntersection(la, lb) ==
  LET a1 == la[1]
      b1 == lb[1]
      da == VSub(la[2], la[1])
      db == VSub(lb[2], lb[1])
      det == VCross(da, db)
  IN  IF det = 0 THEN <<FALSE, a1>>
      ELSE <<TRUE, <<a1[1] + Div(da[1] * VCross(VSub(b1, a1), db), det),
                     a1[2] + Div(da[2] * VCross(VSub(b1, a1), db), det)>> >>

gsk_curve_offset(c, d) ==
  LET p == c.pts
      Inner(i, parallel) == IF i[1] THEN i[2] ELSE parallel
      Cubic(o1, o2, o3) ==
        CubicCurve(o1[1], Inner(LegIntersection(o1, o2), o1[2]),
                   Inner(LegIntersection(o2, o3), o3[1]), o3[2])
      Conic2(o1, o2) == ConicCurve(o1[1], Inner(LegIntersection(o1, o2), o1[2]), o2[2], c.w)
      Line2(o) == LineCurve(o[1], o[2])
  IN  IF c.op = "line" THEN Line2(OffsetLeg(p[1], p[2], d))
      ELSE IF c.op = "curve" THEN
        Cubic(OffsetLeg(p[1], p[2], d), OffsetLeg(p[2], p[3], d), OffsetLeg(p[3], p[4], d))
      ELSE
        Conic2(OffsetLeg(p[1], p[2], d), OffsetLeg(p[2], p[3], d))

\* gsk_curve_intersect with at most one hit, for two lines: the segments
\* cross at the parameters t1 of c1 and t2 of c2, both in [0, 1], at p.
\* Curve against curve is not modelled: the streams keep curves out of corners.
gsk_curve_intersect(c1, c2) ==
  LET a == c1.pts
      b == c2.pts
      a1 == a[1][1] - a[2][1]
      b1 == a[1][2] - a[2][2]
      a2 == b[1][1] - b[2][1]
      b2 == b[1][2] - b[2][2]
      det == a1 * b2 - b1 * a2
      tn == (a[1][1] - b[1][1]) * b2 - (a[1][2] - b[1][2]) * a2
      sn == -((a[1][2] - b[1][2]) * a1 - (a[1][1] - b[1][1]) * b1)
      in(n) == IF det > 0 THEN 0 <= n /\ n <= det ELSE det <= n /\ n <= 0
  IN  IF c1.op # "line" \/ c2.op # "line" THEN CHOOSE h \in {} : TRUE
      ELSE IF det # 0 /\ in(tn) /\ in(sn)
        THEN [n |-> 1, t1 |-> <<Abs(tn), Abs(det)>>, t2 |-> <<Abs(sn), Abs(det)>>,
              p |-> Lerp(a[1], a[2], <<Abs(tn), Abs(det)>>)]
        ELSE [n |-> 0, t1 |-> <<0, 1>>, t2 |-> <<0, 1>>, p |-> Pt(0, 0)]

(***************************************************************************)
(* GskPathBuilder: a builder is the sequence of the calls it received.     *)
(***************************************************************************)
MoveTo(p) == [op |-> "move_to", pts |-> <<p>>, a |-> <<>>]

LineTo(p) == [op |-> "line_to", pts |-> <<p>>, a |-> <<>>]

CurveTo(p1, p2, p3) == [op |-> "curve_to", pts |-> <<p1, p2, p3>>, a |-> <<>>]

ConicTo(p1, p2, weight) == [op |-> "conic_to", pts |-> <<p1, p2>>, a |-> <<weight>>]

SvgArcTo(rx, ry, rot, large, sweep, p) ==
  [op |-> "svg_arc_to", pts |-> <<p>>, a |-> <<rx, ry, rot, large, sweep>>]

ClosePath == [op |-> "close", pts |-> <<>>, a |-> <<>>]

path_builder_move_to_point(point) == MoveTo(point)

path_builder_line_to_point(point) == LineTo(point)

\* path_builder_add_curve: the call that appends curve, which is assumed to
\* start at the current point of the builder
path_builder_add_curve(curve) ==
  CASE curve.op = "line" -> LineTo(curve.pts[2])
    [] curve.op = "curve" -> CurveTo(curve.pts[2], curve.pts[3], curve.pts[4])
    [] curve.op = "conic" -> ConicTo(curve.pts[2], curve.pts[3], curve.w)

\* the point a call leaves the builder at
OpEnd(o, cur) == IF o.op = "close" THEN cur ELSE o.pts[Len(o.pts)]

\* add_op: the call that draws o, which starts at the point from, backwards
ReversedOp(o, from) ==
  CASE o.op = "line_to" -> LineTo(from)
    [] o.op = "curve_to" -> CurveTo(o.pts[2], o.pts[1], from)
    [] o.op = "conic_to" -> ConicTo(o.pts[1], from, o.a[1])
    [] o.op = "svg_arc_to" -> SvgArcTo(o.a[1], o.a[2], o.a[3], o.a[4], 1 - o.a[5], from)

\* path_builder_add_reverse_path: gsk_path_foreach hands every operation of
\* path to add_op, which skips the moves and prepends the reversed curve
RECURSIVE ReverseOps(_, _, _)
ReverseOps(path, cur, acc) ==
  IF path = <<>> THEN acc
  ELSE LET o == Head(path)
       IN  IF o.op \in {"move_to", "close"}
             THEN ReverseOps(Tail(path), OpEnd(o, cur), acc)
             ELSE ReverseOps(Tail(path), OpEnd(o, cur), <<ReversedOp(o, cur)>> \o acc)

\* a variant of path_builder_add_reverse_path that adds the calls of path
\* in their own order
add_path_forward(path) ==
  SelectSeq(path, LAMBDA o : o.op \notin {"move_to", "close"})

path_builder_add_reverse_path(path) == ReverseOps(path, Pt(0, 0), <<>>)

(***************************************************************************)
(* Stroke helpers.                                                         *)
(***************************************************************************)
\* fabs (det) <= 0.001 for the unit vectors of the directions ab and cd
DetIsZero(ab, cd) ==
  LET cr == VCross(ab, cd)
  IN  cr * cr <= (VNorm2(ab) * VNorm2(cd)) \div 1000000

\* line_intersect: the intersection of the lines a + t ab and c + s cd
line_intersect(a, ab, c, cd) ==
  LET a1 == ab[2]
      b1 == -ab[1]
      c1 == a1 * a[1] + b1 * a[2]
      a2 == cd[2]
      b2 == -cd[1]
      c2 == a2 * c[1] + b2 * c[2]
      det == a1 * b2 - a2 * b1
  IN  IF DetIsZero(ab, cd) THEN [ok |-> FALSE, p |-> Pt(0, 0)]
      ELSE [ok |-> TRUE,
            p |-> Pt(Div(b2 * c1 - b1 * c2, det), Div(a1 * c2 - a2 * c1, det))]

\* 1.0 / s <= stroke->miter_limit for s = fabs (sin ((M_PI - angle) / 2)):
\* s * s = (1 + cos (angle)) / 2, and the limit is the fraction mn / md
\* a variant of the miter test with the strict comparison
MiterBelowLimit(angle, limit) ==
  LET len == ISqrt(angle.len2)
  IN  /\ len + angle.cos > 0
      /\ (len + angle.cos) * limit[1] * limit[1] > 2 * len * limit[2] * limit[2]

MiterWithinLimit(angle, limit) ==
  LET len == ISqrt(angle.len2)
  IN  /\ len + angle.cos > 0
      /\ (len + angle.cos) * limit[1] * limit[1] >= 2 * len * limit[2] * limit[2]

\* add_line_join: the calls the join from a (tangent ta) to b (tangent tb)
\* around the corner c makes
add_line_join(st, c, a, ta, b, tb, angle) ==
  LET Clipped(a1, b1) ==
        IF a1.ok /\ b1.ok
          THEN <<path_builder_line_to_point(a1.p), path_builder_line_to_point(b1.p),
                 path_builder_line_to_point(b)>>
          ELSE CHOOSE u \in {} : TRUE
      Clip(q, n) == Clipped(line_intersect(a, ta, q, n), line_intersect(b, tb, q, n))
      Miter(x) ==
        IF ~x.ok THEN <<>>
        ELSE IF MiterWithinLimit(angle, st.miter_limit)
          THEN <<path_builder_line_to_point(x.p), path_builder_line_to_point(b)>>
        ELSE IF st.line_join = "miter_clip"
          THEN Clip(Pt(Div(c[1] + x.p[1], 2), Div(c[2] + x.p[2], 2)), get_normal(c, x.p))
        ELSE <<path_builder_line_to_point(b)>>
  IN  IF st.line_join \in {"miter", "miter_clip"} THEN
        Miter(line_intersect(a, ta, b, tb))
      ELSE IF st.line_join = "round" THEN
        <<SvgArcTo(Div(st.line_width, 2), Div(st.line_width, 2), 0, 0,
                   IF angle.sign > 0 THEN 1 ELSE 0, b)>>
      ELSE
        <<path_builder_line_to_point(b)>>

\* add_line_cap: the calls the cap from s to e makes
\* a variant of add_line_cap that draws the square cap for every cap style
add_line_cap_always_square(st, s, e) ==
  LET cx == Div(s[1] + e[1], 2)
      cy == Div(s[2] + e[2], 2)
      dx == s[2] - cy
      dy == -s[1] + cx
  IN  <<LineTo(Pt(s[1] + dx, s[2] + dy)), LineTo(Pt(e[1] + dx, e[2] + dy)),
        path_builder_line_to_point(e)>>

add_line_cap(st, s, e) ==
  IF st.line_cap = "butt" THEN <<path_builder_line_to_point(e)>>
  ELSE IF st.line_cap = "round" THEN
    <<SvgArcTo(Div(st.line_width, 2), Div(st.line_width, 2), 0, 1, 0, e)>>
  ELSE
    LET cx == Div(s[1] + e[1], 2)
        cy == Div(s[2] + e[2], 2)
        dx == s[2] - cy
        dy == -s[1] + cx
    IN  <<LineTo(Pt(s[1] + dx, s[2] + dy)), LineTo(Pt(e[1] + dx, e[2] + dy)),
          path_builder_line_to_point(e)>>

(***************************************************************************)
(* StrokeData.  left and right are builder handles (0 is NULL); bufs maps  *)
(* every handle that gsk_path_builder_new returned and that was not yet    *)
(* freed to the calls its builder received; builder is the sequence of     *)
(* paths the final builder got through gsk_path_builder_add_path.          *)
(*                                                                         *)
(* The handlers work on a record m = [sd, bufs, builder] and, inside       *)
(* add_segments, on its extension by rp and lp, the curves its parameters  *)
(* r and l point to, and alias, which says that they point to sd.r0 and    *)
(* sd.l0 (the call of close_contours).                                     *)
(***************************************************************************)
NULL == 0

StrokeData0 ==
  [ left |-> NULL, right |-> NULL,
    has_current_point |-> FALSE, has_current_curve |-> FALSE, is_first_curve |-> FALSE,
    c |-> ZeroCurve, l |-> ZeroCurve, r |-> ZeroCurve,
    c0 |-> ZeroCurve, l0 |-> ZeroCurve, r0 |-> ZeroCurve ]

\* a call on a builder; a call on NULL returns at once
BufAppend(m, id, ops) ==
  IF id \in DOMAIN m.bufs THEN [m EXCEPT !.bufs[id] = @ \o ops] ELSE m

\* gsk_path_builder_new
NewHandle(bf) == CHOOSE id \in 1..(Cardinality(DOMAIN bf) + 1) : id \notin DOMAIN bf

\* gsk_path_builder_free_to_path
BufFree(bf, id) == [i \in DOMAIN bf \ {id} |-> bf[i]]

SetR0(m, curve) == [m EXCEPT !.sd.r0 = curve, !.rp = IF m.alias THEN curve ELSE @]

SetL0(m, curve) == [m EXCEPT !.sd.l0 = curve, !.lp = IF m.alias THEN curve ELSE @]

SetRp(m, curve) == [m EXCEPT !.rp = curve, !.sd.r0 = IF m.alias THEN curve ELSE @]

SetLp(m, curve) == [m EXCEPT !.lp = curve, !.sd.l0 = IF m.alias THEN curve ELSE @]

\* a variant of append_right that adds the curve whatever is_first_curve says
append_right_at_once(m, curve) ==
  BufAppend(m, m.sd.right, <<path_builder_add_curve(curve)>>)

append_right(m, curve) ==
  IF m.sd.is_first_curve
    THEN BufAppend(SetR0(m, curve), m.sd.right,
                   <<path_builder_move_to_point(gsk_curve_get_end_point(curve))>>)
    ELSE BufAppend(m, m.sd.right, <<path_builder_add_curve(curve)>>)

append_left(m, curve) ==
  IF m.sd.is_first_curve
    THEN BufAppend(SetL0(m, curve), m.sd.left,
                   <<path_builder_move_to_point(gsk_curve_get_end_point(curve))>>)
    ELSE BufAppend(m, m.sd.left, <<path_builder_add_curve(curve)>>)

\* the branch of add_segments for fabs (angle) < DEG_TO_RAD (5)
SegmentsStraight(m) ==
  LET Right(x) == append_right(x, x.sd.r)
      RightLine(x) ==
        BufAppend(x, x.sd.right,
                  <<path_builder_line_to_point(gsk_curve_get_start_point(x.rp))>>)
      Left(x) == append_left(x, x.sd.l)
      LeftLine(x) ==
        BufAppend(x, x.sd.left,
                  <<path_builder_line_to_point(gsk_curve_get_start_point(x.lp))>>)
  IN  LeftLine(Left(RightLine(Right(m))))

\* a variant of the angle > 0 branch that leaves the new right offset whole
\* after a hit
SegmentsPositive_whole_new_offset(m, st, curve, tangent1, tangent2, angle) ==
  LET CutR(x, hit) == [x EXCEPT !.sd.r = gsk_curve_split(x.sd.r, hit.t1)[1]]
      Right(x) == append_right(x, x.sd.r)
      RightLine(x) ==
        BufAppend(x, x.sd.right,
                  <<path_builder_line_to_point(gsk_curve_get_start_point(x.rp))>>)
      Inside(x, hit) ==
        IF hit.n > 0 THEN Right(CutR(x, hit)) ELSE RightLine(Right(x))
      Left(x) == append_left(x, x.sd.l)
      LeftJoin(x) ==
        BufAppend(x, x.sd.left,
                  add_line_join(st, gsk_curve_get_start_point(curve),
                                gsk_curve_get_end_point(x.sd.l), tangent1,
                                gsk_curve_get_start_point(x.lp), tangent2, angle))
  IN  LeftJoin(Left(Inside(m, gsk_curve_intersect(m.sd.r, m.rp))))

\* a variant of the angle > 0 branch that joins on the right sub-path and
\* intersects the left pair
SegmentsPositive_joins_right(m, st, curve, tangent1, tangent2, angle) ==
  LET Right(x) == append_right(x, x.sd.r)
      RightJoin(x) ==
        BufAppend(x, x.sd.right,
                  add_line_join(st, gsk_curve_get_start_point(curve),
                                gsk_curve_get_end_point(x.sd.r), tangent1,
                                gsk_curve_get_start_point(x.rp), tangent2, angle))
      CutL(x, hit) == [x EXCEPT !.sd.l = gsk_curve_split(x.sd.l, hit.t1)[1]]
      CutLp(x, hit) == SetLp(x, gsk_curve_split(x.lp, hit.t2)[2])
      Left(x) == append_left(x, x.sd.l)
      LeftLine(x) ==
        BufAppend(x, x.sd.left,
                  <<path_builder_line_to_point(gsk_curve_get_start_point(x.lp))>>)
      Inside(x, hit) ==
        IF hit.n > 0 THEN Left(CutLp(CutL(x, hit), hit)) ELSE LeftLine(Left(x))
      Crossing(x) == Inside(x, gsk_curve_intersect(x.sd.l, x.lp))
  IN  Crossing(RightJoin(Right(m)))

\* the branch of add_segments for angle > 0 ("Right turn" in the code)
SegmentsPositive(m, st, curve, tangent1, tangent2, angle) ==
  LET CutR(x, hit) == [x EXCEPT !.sd.r = gsk_curve_split(x.sd.r, hit.t1)[1]]
      CutRp(x, hit) == SetRp(x, gsk_curve_split(x.rp, hit.t2)[2])
      Right(x) == append_right(x, x.sd.r)
      RightLine(x) ==
        BufAppend(x, x.sd.right,
                  <<path_builder_line_to_point(gsk_curve_get_start_point(x.rp))>>)
      Inside(x, hit) ==
        IF hit.n > 0 THEN Right(CutRp(CutR(x, hit), hit)) ELSE RightLine(Right(x))
      Left(x) == append_left(x, x.sd.l)
      LeftJoin(x) ==
        BufAppend(x, x.sd.left,
                  add_line_join(st, gsk_curve_get_start_point(curve),
                                gsk_curve_get_end_point(x.sd.l), tangent1,
                                gsk_curve_get_start_point(x.lp), tangent2, angle))
  IN  LeftJoin(Left(Inside(m, gsk_curve_intersect(m.sd.r, m.rp))))

\* a variant of the else branch that joins on both sub-paths and intersects
\* neither pair
SegmentsNegative_joins_both(m, st, curve, tangent1, tangent2, angle) ==
  LET Right(x) == append_right(x, x.sd.r)
      RightJoin(x) ==
        BufAppend(x, x.sd.right,
                  add_line_join(st, gsk_curve_get_start_point(curve),
                                gsk_curve_get_end_point(x.sd.r), tangent1,
                                gsk_curve_get_start_point(x.rp), tangent2, angle))
      Left(x) == append_left(x, x.sd.l)
      LeftJoin(x) ==
        BufAppend(x, x.sd.left,
                  add_line_join(st, gsk_curve_get_start_point(curve),
                                gsk_curve_get_end_point(x.sd.l), tangent1,
                                gsk_curve_get_start_point(x.lp), tangent2, angle))
  IN  LeftJoin(Left(RightJoin(Right(m))))

\* the else branch of add_segments ("Left turn" in the code)
SegmentsNegative(m, st, curve, tangent1, tangent2, angle) ==
  LET Right(x) == append_right(x, x.sd.r)
      RightJoin(x) ==
        BufAppend(x, x.sd.right,
                  add_line_join(st, gsk_curve_get_start_point(curve),
                                gsk_curve_get_end_point(x.sd.r), tangent1,
                                gsk_curve_get_start_point(x.rp), tangent2, angle))
      CutL(x, hit) == [x EXCEPT !.sd.l = gsk_curve_split(x.sd.l, hit.t1)[1]]
      CutLp(x, hit) == SetLp(x, gsk_curve_split(x.lp, hit.t2)[2])
      Left(x) == append_left(x, x.sd.l)
      LeftLine(x) ==
        BufAppend(x, x.sd.left,
                  <<path_builder_line_to_point(gsk_curve_get_start_point(x.lp))>>)
      Inside(x, hit) ==
        IF hit.n > 0 THEN Left(CutLp(CutL(x, hit), hit)) ELSE LeftLine(Left(x))
      Crossing(x) == Inside(x, gsk_curve_intersect(x.sd.l, x.lp))
  IN  Crossing(RightJoin(Right(m)))

\* the kind of join add_segments makes between the pending curve and curve
TurnAngle(prev, curve) ==
  angle_between(gsk_curve_get_end_tangent(prev), gsk_curve_get_start_tangent(curve))

add_segments(m, st, curve) ==
  LET Branch(tangent1, tangent2, angle) ==
        IF IsStraight(angle) THEN SegmentsStraight(m)
        ELSE IF angle.sign > 0
          THEN SegmentsPositive(m, st, curve, tangent1, tangent2, angle)
          ELSE SegmentsNegative(m, st, curve, tangent1, tangent2, angle)
      Tangents(tangent1, tangent2) ==
        Branch(tangent1, tangent2, angle_between(tangent1, tangent2))
      Pending(j) == [j EXCEPT !.sd.c = curve, !.sd.r = j.rp, !.sd.l = j.lp]
  IN  Pending(Tangents(gsk_curve_get_end_tangent(m.sd.c),
                       gsk_curve_get_start_tangent(curve)))

\* m without the parameters of add_segments
Core(m) == [sd |-> m.sd, bufs |-> m.bufs, builder |-> m.builder]

WithParams(m, r, l, alias) ==
  [sd |-> m.sd, bufs |-> m.bufs, builder |-> m.builder, rp |-> r, lp |-> l, alias |-> alias]

\* a variant of add_curve that takes the offset at + w/2 for l and the one
\* at - w/2 for r
add_curve_sides_swapped(m, st, curve) ==
  LET First(l, r) ==
        [BufAppend(BufAppend([m EXCEPT !.sd.c0 = curve, !.sd.r0 = r, !.sd.l0 = l],
                             m.sd.right,
                             <<path_builder_move_to_point(gsk_curve_get_start_point(r))>>),
                   m.sd.left,
                   <<path_builder_move_to_point(gsk_curve_get_start_point(l))>>)
           EXCEPT !.sd.c = curve, !.sd.r = r, !.sd.l = l,
                  !.sd.has_current_curve = TRUE, !.sd.is_first_curve = TRUE]
      Later(l, r) ==
        [Core(add_segments(WithParams(m, r, l, FALSE), st, curve))
           EXCEPT !.sd.is_first_curve = FALSE]
      Offsets(l, r) == IF ~m.sd.has_current_curve THEN First(l, r) ELSE Later(l, r)
  IN  Offsets(gsk_curve_offset(curve, Div(st.line_width, 2)),
              gsk_curve_offset(curve, -Div(st.line_width, 2)))

add_curve(m, st, curve) ==
  LET First(l, r) ==
        [BufAppend(BufAppend([m EXCEPT !.sd.c0 = curve, !.sd.r0 = r, !.sd.l0 = l],
                             m.sd.right,
                             <<path_builder_move_to_point(gsk_curve_get_start_point(r))>>),
                   m.sd.left,
                   <<path_builder_move_to_point(gsk_curve_get_start_point(l))>>)
           EXCEPT !.sd.c = curve, !.sd.r = r, !.sd.l = l,
                  !.sd.has_current_curve = TRUE, !.sd.is_first_curve = TRUE]
      Later(l, r) ==
        [Core(add_segments(WithParams(m, r, l, FALSE), st, curve))
           EXCEPT !.sd.is_first_curve = FALSE]
      Offsets(l, r) == IF ~m.sd.has_current_curve THEN First(l, r) ELSE Later(l, r)
  IN  Offsets(gsk_curve_offset(curve, -Div(st.line_width, 2)),
              gsk_curve_offset(curve, Div(st.line_width, 2)))

\* gsk_path_builder_free_to_path followed by gsk_path_builder_add_path on the
\* final builder and gsk_path_unref
\* a variant of Deposit that hands only the right sub-path to the final builder
DepositRightOnly(m, id) ==
  IF id \in DOMAIN m.bufs
    THEN [m EXCEPT !.builder = IF id = m.sd.right THEN Append(@, m.bufs[id]) ELSE @,
                   !.bufs = BufFree(m.bufs, id)]
    ELSE m

Deposit(m, id) ==
  IF id \in DOMAIN m.bufs
    THEN [m EXCEPT !.builder = Append(@, m.bufs[id]), !.bufs = BufFree(m.bufs, id)]
    ELSE m

\* a variant of cap_and_connect_contours that adds the first offsets around
\* the start cap while is_first_curve is still set
cap_and_connect_first_only(m, st) ==
  LET r0 == gsk_curve_get_start_point(m.sd.r0)
      l0 == gsk_curve_get_start_point(m.sd.l0)
      cv == m.sd.has_current_curve
      r1 == IF cv THEN gsk_curve_get_end_point(m.sd.r) ELSE r0
      l1 == IF cv THEN gsk_curve_get_end_point(m.sd.l) ELSE l0
      Right(x, ops) == BufAppend(x, x.sd.right, ops)
      Pending(x) ==
        IF cv
          THEN BufAppend(Right(x, <<path_builder_add_curve(x.sd.r)>>),
                         x.sd.left, <<path_builder_add_curve(x.sd.l)>>)
          ELSE Right(x, <<path_builder_move_to_point(r1)>>)
      EndCap(x) == Right(x, add_line_cap(st, r1, l1))
      LeftPath(x) == IF x.sd.left \in DOMAIN x.bufs THEN x.bufs[x.sd.left] ELSE <<>>
      Extra(x) ==
        IF x.sd.is_first_curve
          THEN Right(x, <<path_builder_add_curve(gsk_curve_reverse(x.sd.l0))>>)
          ELSE x
      Back(x) ==
        IF cv
          THEN Extra(Right([x EXCEPT !.bufs = BufFree(x.bufs, x.sd.left)],
                           path_builder_add_reverse_path(LeftPath(x))))
          ELSE x
      StartCap(x) == Right(x, add_line_cap(st, l0, r0))
      Start(x) ==
        IF cv /\ x.sd.is_first_curve
          THEN Right(x, <<path_builder_add_curve(x.sd.r0)>>)
          ELSE x
      Out(x) == [Deposit(Right(x, <<ClosePath>>), x.sd.right)
                   EXCEPT !.sd.left = NULL, !.sd.right = NULL]
  IN  Out(Start(StartCap(Back(EndCap(Pending(m))))))

cap_and_connect_contours(m, st) ==
  LET r0 == gsk_curve_get_start_point(m.sd.r0)
      l0 == gsk_curve_get_start_point(m.sd.l0)
      cv == m.sd.has_current_curve
      r1 == IF cv THEN gsk_curve_get_end_point(m.sd.r) ELSE r0
      l1 == IF cv THEN gsk_curve_get_end_point(m.sd.l) ELSE l0
      Right(x, ops) == BufAppend(x, x.sd.right, ops)
      Pending(x) ==
        IF cv
          THEN BufAppend(Right(x, <<path_builder_add_curve(x.sd.r)>>),
                         x.sd.left, <<path_builder_add_curve(x.sd.l)>>)
          ELSE Right(x, <<path_builder_move_to_point(r1)>>)
      EndCap(x) == Right(x, add_line_cap(st, r1, l1))
      LeftPath(x) == IF x.sd.left \in DOMAIN x.bufs THEN x.bufs[x.sd.left] ELSE <<>>
      Extra(x) ==
        IF ~x.sd.is_first_curve
          THEN Right(x, <<path_builder_add_curve(gsk_curve_reverse(x.sd.l0))>>)
          ELSE x
      Back(x) ==
        IF cv
          THEN Extra(Right([x EXCEPT !.bufs = BufFree(x.bufs, x.sd.left)],
                           path_builder_add_reverse_path(LeftPath(x))))
          ELSE x
      StartCap(x) == Right(x, add_line_cap(st, l0, r0))
      Start(x) ==
        IF cv /\ ~x.sd.is_first_curve
          THEN Right(x, <<path_builder_add_curve(x.sd.r0)>>)
          ELSE x
      Out(x) == [Deposit(Right(x, <<ClosePath>>), x.sd.right)
                   EXCEPT !.sd.left = NULL, !.sd.right = NULL]
  IN  Out(Start(StartCap(Back(EndCap(Pending(m))))))

\* a variant of close_contours that leaves out the join with the first
\* segment
close_contours_without_join(m, st) ==
  LET Pending(x) ==
        BufAppend(BufAppend(x, x.sd.right, <<path_builder_add_curve(x.sd.r)>>),
                  x.sd.left, <<path_builder_add_curve(x.sd.l)>>)
      Joined(x) == IF x.sd.has_current_curve THEN Pending(x) ELSE x
      Ends(x) == BufAppend(BufAppend(x, x.sd.right, <<ClosePath>>), x.sd.left, <<ClosePath>>)
      Out(x) == [Deposit(Deposit(x, x.sd.right), x.sd.left)
                   EXCEPT !.sd.left = NULL, !.sd.right = NULL]
  IN  Out(Ends(Joined(m)))

close_contours(m, st) ==
  LET Pending(x) ==
        BufAppend(BufAppend(x, x.sd.right, <<path_builder_add_curve(x.sd.r)>>),
                  x.sd.left, <<path_builder_add_curve(x.sd.l)>>)
      Joined(x) ==
        IF x.sd.has_current_curve
          THEN Pending(Core(add_segments(WithParams(x, x.sd.r0, x.sd.l0, TRUE),
                                         st, x.sd.c0)))
          ELSE x
      Ends(x) == BufAppend(BufAppend(x, x.sd.right, <<ClosePath>>), x.sd.left, <<ClosePath>>)
      Out(x) == [Deposit(Deposit(x, x.sd.right), x.sd.left)
                   EXCEPT !.sd.left = NULL, !.sd.right = NULL]
  IN  Out(Ends(Joined(m)))

(***************************************************************************)
(* The subdivider.                                                         *)
(***************************************************************************)
MAX_SUBDIVISION == 8

\* a leg of a control polygon; the curves of the streams have no
\* degenerate leg
Leg(p0, p1) == IF p0 = p1 THEN CHOOSE v \in {} : TRUE ELSE get_tangent(p0, p1)

\* a / b > c / d for positive a, b, c, d, by the continued fractions
RECURSIVE FracGreater(_, _, _, _)
FracGreater(a, b, c, d) ==
  LET qa == a \div b
      qc == c \div d
      ra == a % b
      rc == c % d
  IN  IF qa # qc THEN qa > qc
      ELSE IF ra = 0 THEN FALSE
      ELSE IF rc = 0 THEN TRUE
      ELSE FracGreater(d, rc, b, ra)

\* fabs (acos (s)) < M_PI / 3 for the dot product s of the unit vectors of
\* n1 and n2: s > 1/2, that is (2 dot) / |n1|^2 > |n2|^2 / (2 dot)
NormalsWithinSixty(n1, n2) ==
  LET dt == VDot(n1, n2)
  IN  dt > 0 /\ FracGreater(2 * dt, VNorm2(n1), VNorm2(n2), 2 * dt)

cubic_is_simple(curve) ==
  LET pts == curve.pts
      t1 == Leg(pts[1], pts[2])
      t2 == Leg(pts[2], pts[3])
      t3 == Leg(pts[3], pts[4])
      a1 == AngleSign(t1, t2)
      a2 == AngleSign(t2, t3)
  IN  IF (a1 < 0 /\ a2 > 0) \/ (a1 > 0 /\ a2 < 0) THEN FALSE
      ELSE NormalsWithinSixty(get_normal(pts[1], pts[2]), get_normal(pts[3], pts[4]))

conic_is_simple(curve) ==
  LET pts == curve.pts
  IN  NormalsWithinSixty(Direction(<<-Leg(pts[1], pts[2])[2], Leg(pts[1], pts[2])[1]>>),
                         Direction(<<-Leg(pts[2], pts[3])[2], Leg(pts[2], pts[3])[1]>>))

\* curve parameters: fractions n / d with d > 0
FracLess(s, t) == s[1] * t[2] < t[1] * s[2]

InOpenUnit(t) == 0 < t[1] /\ t[1] < t[2]

\* n / d in lowest terms
Frac(n, d) ==
  LET g == GCD(n, d)
  IN  IF d < 0 THEN <<(-n) \div g, (-d) \div g>> ELSE <<n \div g, d \div g>>

\* qsort with cmpfloat
RECURSIVE SortParams(_)
SortParams(ts) ==
  IF Len(ts) <= 1 THEN ts
  ELSE LET lo == CHOOSE i \in 1..Len(ts) : \A j \in 1..Len(ts) : ~FracLess(ts[j], ts[i])
       IN  <<ts[lo]>> \o SortParams(SubSeq(ts, 1, lo - 1) \o SubSeq(ts, lo + 1, Len(ts)))

\* a variant of cubic_curvature_points that keeps every root it computes,
\* without the test 0 < tt && tt < 1
cubic_curvature_points_unfiltered(curve, grid) ==
  LET rel(i) == VSub(curve.pts[i], curve.pts[1])
      Roots(x, y, disc, d2, rn, rd) ==
        LET r0 == <<Frac(-y, 2 * x)>>
            r1 == <<Frac(-y + ISqrt(disc), 2 * x)>>
            r2 == <<Frac(-y - ISqrt(disc), 2 * x)>>
        IN  IF 1000 * Abs(x) * rn * rn >= d2 * rd * rd
              THEN IF 1000 * disc * rn * rn * rn * rn > d2 * d2 * rd * rd * rd * rd
                     THEN r0 \o r1 \o r2 ELSE r0
              ELSE <<>>
      Quadratic(x, y, z, d2, rn, rd) == Roots(x, y, y * y - 4 * x * z, d2, rn, rd)
      Products(a, b, c, d, d2, rn, rd) ==
        Quadratic(-3 * a + 2 * b + 3 * c - d, 3 * a - b - 3 * c, c - a, d2, rn, rd)
      Aligned(qx, qy, d2, rn, rd) ==
        Products(qx[3] * qy[2], qx[4] * qy[2], qx[2] * qy[3], qx[4] * qy[3], d2, rn, rd)
      Rotated(pts, D, rn, rd) ==
        Aligned([i \in 1..4 |-> VDot(pts[i], D)], [i \in 1..4 |-> VCross(D, pts[i])],
                VNorm2(D), rn, rd)
      Units(pts, rn, rd) ==
        Rotated(pts, IF pts[4] = Pt(0, 0) THEN CHOOSE v \in {} : TRUE ELSE pts[4], rn, rd)
      Scaled(g) ==
        Units([i \in 1..4 |-> Pt(rel(i)[1] \div g, rel(i)[2] \div g)],
              g \div GCD(g, grid), grid \div GCD(g, grid))
  IN  Scaled(GCD(GCD(GCD(rel(2)[1], rel(2)[2]), GCD(rel(3)[1], rel(3)[2])),
                 GCD(rel(4)[1], rel(4)[2])))

\* align_points and cubic_curvature_points.  The points are taken relative
\* to p0 in units of g, the greatest common divisor of their coordinates,
\* which is rn / rd user-space units.  After the rotation by the direction
\* D of p0 -> p3 the coordinates are qx = (p - p0) . D / |D| and
\* qy = D x (p - p0) / |D|, so x, y, z are X, Y, Z over |D|^2 in units of
\* g^2; the roots do not depend on the unit.
cubic_curvature_points(curve, grid) ==
  LET rel(i) == VSub(curve.pts[i], curve.pts[1])
      Roots(x, y, disc, d2, rn, rd) ==
        LET r0 == IF InOpenUnit(Frac(-y, 2 * x)) THEN <<Frac(-y, 2 * x)>> ELSE <<>>
            r1 == IF InOpenUnit(Frac(-y + ISqrt(disc), 2 * x))
                    THEN <<Frac(-y + ISqrt(disc), 2 * x)>> ELSE <<>>
            r2 == IF InOpenUnit(Frac(-y - ISqrt(disc), 2 * x))
                    THEN <<Frac(-y - ISqrt(disc), 2 * x)>> ELSE <<>>
        IN  IF 1000 * Abs(x) * rn * rn >= d2 * rd * rd
              THEN IF 1000 * disc * rn * rn * rn * rn > d2 * d2 * rd * rd * rd * rd
                     THEN r0 \o r1 \o r2 ELSE r0
              ELSE <<>>
      Quadratic(x, y, z, d2, rn, rd) == Roots(x, y, y * y - 4 * x * z, d2, rn, rd)
      Products(a, b, c, d, d2, rn, rd) ==
        Quadratic(-3 * a + 2 * b + 3 * c - d, 3 * a - b - 3 * c, c - a, d2, rn, rd)
      Aligned(qx, qy, d2, rn, rd) ==
        Products(qx[3] * qy[2], qx[4] * qy[2], qx[2] * qy[3], qx[4] * qy[3], d2, rn, rd)
      Rotated(pts, D, rn, rd) ==
        Aligned([i \in 1..4 |-> VDot(pts[i], D)], [i \in 1..4 |-> VCross(D, pts[i])],
                VNorm2(D), rn, rd)
      Units(pts, rn, rd) ==
        Rotated(pts, IF pts[4] = Pt(0, 0) THEN CHOOSE v \in {} : TRUE ELSE pts[4], rn, rd)
      Scaled(g) ==
        Units([i \in 1..4 |-> Pt(rel(i)[1] \div g, rel(i)[2] \div g)],
              g \div GCD(g, grid), grid \div GCD(g, grid))
  IN  Scaled(GCD(GCD(GCD(rel(2)[1], rel(2)[2]), GCD(rel(3)[1], rel(3)[2])),
                 GCD(rel(4)[1], rel(4)[2])))

\* a variant of subdivide_and_add_curve that stops one level early
RECURSIVE subdivide_to_level_one(_, _, _)
subdivide_to_level_one(curve, level, grid) ==
  LET Halves(h) ==
        subdivide_to_level_one(h[1], level - 1, grid)
          \o subdivide_to_level_one(h[2], level - 1, grid)
  IN  IF level <= 1 \/ (level < MAX_SUBDIVISION /\ cubic_is_simple(curve))
        THEN <<[curve |-> curve, level |-> level]>>
        ELSE Halves(gsk_curve_split(curve, <<1, 2>>))

\* the pieces subdivide_and_add_curve hands to add_curve, in the order of
\* the calls, each with the level it is accepted at
RECURSIVE subdivide_and_add_curve(_, _, _)
RECURSIVE SubdivideSegments(_, _, _, _, _)

\* a variant of SubdivideSegments that leaves out the part up to t = 1
SubdivideSegments_short(curve, t, i, level, grid) ==
  IF i + 2 > Len(t) THEN <<>>
  ELSE subdivide_and_add_curve(gsk_curve_segment(curve, t[i], t[i + 1]), level - 1, grid)
         \o SubdivideSegments(curve, t, i + 1, level, grid)

SubdivideSegments(curve, t, i, level, grid) ==
  IF i + 1 > Len(t) THEN <<>>
  ELSE subdivide_and_add_curve(gsk_curve_segment(curve, t[i], t[i + 1]), level - 1, grid)
         \o SubdivideSegments(curve, t, i + 1, level, grid)

\* a variant of subdivide_and_add_curve that hands on the second half first
RECURSIVE subdivide_second_half_first(_, _, _)
subdivide_second_half_first(curve, level, grid) ==
  LET Halves(h) ==
        subdivide_second_half_first(h[2], level - 1, grid)
          \o subdivide_second_half_first(h[1], level - 1, grid)
      Parts(t) ==
        IF Len(t) = 2
          THEN Halves(gsk_curve_split(curve, <<1, 2>>))
          ELSE SubdivideSegments(curve, t, 1, level, grid)
  IN  IF level = 0 \/ (level < MAX_SUBDIVISION /\ cubic_is_simple(curve))
        THEN <<[curve |-> curve, level |-> level]>>
        ELSE Parts(IF level = MAX_SUBDIVISION
                     THEN SortParams(<<<<0, 1>>, <<1, 1>>>>
                                       \o cubic_curvature_points(curve, grid))
                     ELSE <<<<0, 1>>, <<1, 1>>>>)

subdivide_and_add_curve(curve, level, grid) ==
  LET Halves(h) ==
        subdivide_and_add_curve(h[1], level - 1, grid)
          \o subdivide_and_add_curve(h[2], level - 1, grid)
      Parts(t) ==
        IF Len(t) = 2
          THEN Halves(gsk_curve_split(curve, <<1, 2>>))
          ELSE SubdivideSegments(curve, t, 1, level, grid)
  IN  IF level = 0 \/ (level < MAX_SUBDIVISION /\ cubic_is_simple(curve))
        THEN <<[curve |-> curve, level |-> level]>>
        ELSE Parts(IF level = MAX_SUBDIVISION
                     THEN SortParams(<<<<0, 1>>, <<1, 1>>>>
                                       \o cubic_curvature_points(curve, grid))
                     ELSE <<<<0, 1>>, <<1, 1>>>>)

\* a variant of subdivide_and_add_conic that stops below level 0
RECURSIVE subdivide_conic_below_zero(_, _)
subdivide_conic_below_zero(curve, level) ==
  LET Halves(h) ==
        subdivide_conic_below_zero(h[1], level - 1)
          \o subdivide_conic_below_zero(h[2], level - 1)
  IN  IF level = -1 \/ (level < MAX_SUBDIVISION /\ conic_is_simple(curve))
        THEN <<[curve |-> curve, level |-> level]>>
        ELSE Halves(gsk_curve_split(curve, <<1, 2>>))

RECURSIVE subdivide_and_add_conic(_, _)
subdivide_and_add_conic(curve, level) ==
  LET Halves(h) ==
        subdivide_and_add_conic(h[1], level - 1) \o subdivide_and_add_conic(h[2], level - 1)
  IN  IF level = 0 \/ (level < MAX_SUBDIVISION /\ conic_is_simple(curve))
        THEN <<[curve |-> curve, level |-> level]>>
        ELSE Halves(gsk_curve_split(curve, <<1, 2>>))

(***************************************************************************)
(* stroke_op and the driver.                                               *)
(***************************************************************************)
\* gsk_path_builder_new
NewBuilder(bf, id) == [i \in DOMAIN bf \cup {id} |-> IF i = id THEN <<>> ELSE bf[i]]

\* a variant of the MOVE case that seeds r0 and l0 with the point itself
stroke_op_move_unseeded(m, st, p) ==
  LET Start(x) ==
        LET right == NewHandle(x.bufs)
            left == NewHandle(NewBuilder(x.bufs, right))
        IN  [x EXCEPT !.sd.r0 = LineCurve(p, p), !.sd.l0 = LineCurve(p, p),
                      !.sd.right = right, !.sd.left = left,
                      !.bufs = NewBuilder(NewBuilder(x.bufs, right), left),
                      !.sd.has_current_point = TRUE, !.sd.has_current_curve = FALSE]
  IN  Start(IF m.sd.has_current_point THEN cap_and_connect_contours(m, st) ELSE m)

\* stroke_op MOVE without has_current_curve = FALSE
stroke_op_move_keeping_curve(m, st, p) ==
  LET curve == LineCurve(p, Pt(p[1] + Grid, p[2]))
      Start(x) ==
        LET right == NewHandle(x.bufs)
            left == NewHandle(NewBuilder(x.bufs, right))
        IN  [x EXCEPT !.sd.r0 = gsk_curve_offset(curve, Div(st.line_width, 2)),
                      !.sd.l0 = gsk_curve_offset(curve, -Div(st.line_width, 2)),
                      !.sd.right = right, !.sd.left = left,
                      !.bufs = NewBuilder(NewBuilder(x.bufs, right), left),
                      !.sd.has_current_point = TRUE]
  IN  Start(IF m.sd.has_current_point THEN cap_and_connect_contours(m, st) ELSE m)

\* a variant of stroke_op MOVE that keeps the r0 and l0 it finds when a
\* contour was in progress
stroke_op_move_on_leftover(m, st, p) ==
  LET curve == LineCurve(p, Pt(p[1] + Grid, p[2]))
      Start(x) ==
        LET right == NewHandle(x.bufs)
            left == NewHandle(NewBuilder(x.bufs, right))
        IN  [x EXCEPT !.sd.r0 = IF m.sd.has_current_point THEN @
                                 ELSE gsk_curve_offset(curve, Div(st.line_width, 2)),
                      !.sd.l0 = IF m.sd.has_current_point THEN @
                                 ELSE gsk_curve_offset(curve, -Div(st.line_width, 2)),
                      !.sd.right = right, !.sd.left = left,
                      !.bufs = NewBuilder(NewBuilder(x.bufs, right), left),
                      !.sd.has_current_point = TRUE, !.sd.has_current_curve = FALSE]
  IN  Start(IF m.sd.has_current_point THEN cap_and_connect_contours(m, st) ELSE m)

\* case GSK_PATH_MOVE
stroke_op_move(m, st, p) ==
  LET curve == LineCurve(p, Pt(p[1] + Grid, p[2]))
      Start(x) ==
        LET right == NewHandle(x.bufs)
            left == NewHandle(NewBuilder(x.bufs, right))
        IN  [x EXCEPT !.sd.r0 = gsk_curve_offset(curve, Div(st.line_width, 2)),
                      !.sd.l0 = gsk_curve_offset(curve, -Div(st.line_width, 2)),
                      !.sd.right = right, !.sd.left = left,
                      !.bufs = NewBuilder(NewBuilder(x.bufs, right), left),
                      !.sd.has_current_point = TRUE, !.sd.has_current_curve = FALSE]
  IN  Start(IF m.sd.has_current_point THEN cap_and_connect_contours(m, st) ELSE m)

\* a variant of the CLOSE case that leaves has_current_point and
\* has_current_curve as they are
stroke_op_close_keeping_point(m, st, pts) ==
  IF m.sd.has_current_point
    THEN close_contours(IF pts[1] # pts[2]
                          THEN add_curve(m, st, LineCurve(pts[1], pts[2]))
                          ELSE m, st)
    ELSE m

\* case GSK_PATH_CLOSE, with pts the end points of the closing line
stroke_op_close(m, st, pts) ==
  LET Ended(x) == [x EXCEPT !.sd.has_current_point = FALSE, !.sd.has_current_curve = FALSE]
  IN  Ended(IF m.sd.has_current_point
              THEN close_contours(IF pts[1] # pts[2]
                                    THEN add_curve(m, st, LineCurve(pts[1], pts[2]))
                                    ELSE m, st)
              ELSE m)

\* a variant of the LINE case that also hands the right sub-path, as far as
\* it got, to the final builder
stroke_op_line_depositing(m, st, pts) ==
  LET Handed(x) == [x EXCEPT !.builder = Append(@, x.bufs[x.sd.right])]
  IN  Handed(add_curve(m, st, LineCurve(pts[1], pts[2])))

\* case GSK_PATH_LINE
stroke_op_line(m, st, pts) == add_curve(m, st, LineCurve(pts[1], pts[2]))

\* add_curve for every piece of the subdivider, in the order of the calls
RECURSIVE AddPieces(_, _, _)
AddPieces(m, st, ps) ==
  IF ps = <<>> THEN m ELSE AddPieces(add_curve(m, st, Head(ps).curve), st, Tail(ps))

\* case GSK_PATH_CURVE
stroke_op_curve(m, st, pts) ==
  AddPieces(m, st, subdivide_and_add_curve(CubicCurve(pts[1], pts[2], pts[3], pts[4]),
                                           MAX_SUBDIVISION, Grid))

\* case GSK_PATH_CONIC
stroke_op_conic(m, st, pts, weight) ==
  AddPieces(m, st, subdivide_and_add_conic(ConicCurve(pts[1], pts[2], pts[3], weight),
                                           MAX_SUBDIVISION))

\* a variant of the end of the call without the final cap_and_connect_contours
add_stroke_end_without_cap(m, st) == m

\* the end of gsk_contour_default_add_stroke, after the walk
add_stroke_end(m, st) ==
  IF m.sd.has_current_point THEN cap_and_connect_contours(m, st) ELSE m

(***************************************************************************)
(* The stroke call as a state machine.  gsk_contour_foreach or             *)
(* gsk_contour_dash (walk) hands the events of a well-formed stream to     *)
(* stroke_op one at a time: a contour starts with MOVE; without dashes     *)
(* there is one contour, which may end with CLOSE; the dash generator      *)
(* emits open contours only.                                               *)
(***************************************************************************)
\* the steps of the walk: five user-space units along a direction of the family
Steps ==
  { <<5 * Grid, 0>>, <<0, 5 * Grid>>, <<-5 * Grid, 0>>,
    <<4 * Grid, 3 * Grid>>, <<4 * Grid, -3 * Grid>> }

\* the steps of the curves
CurveSteps == { <<5 * Grid, 0>>, <<4 * Grid, 3 * Grid>> }

\* the directions a closing line may have
Dirs == { Direction(s) : s \in Steps } \cup { <<0, -1>> }

StartPoints == { Pt(0, 0), Pt(12 * Grid, 0) }

\* the stroke parameters: the miter limit is the fraction <<n, d>>
Joins ==
  { [line_join |-> "miter", miter_limit |-> <<5, 4>>],
    [line_join |-> "miter", miter_limit |-> <<4, 1>>],
    [line_join |-> "miter_clip", miter_limit |-> <<5, 4>>],
    [line_join |-> "round", miter_limit |-> <<4, 1>>],
    [line_join |-> "bevel", miter_limit |-> <<4, 1>>] }

\* every join with butt caps, and the other caps with two joins each
StrokeParams ==
  { [line_width |-> 2 * Grid, line_cap |-> c, line_join |-> j.line_join,
     miter_limit |-> j.miter_limit, dash |-> d] :
      c \in {"butt", "round", "square"}, j \in Joins, d \in BOOLEAN }
  \ { st \in [line_width : {2 * Grid}, line_cap : {"round", "square"},
               line_join : {"miter", "miter_clip"}, miter_limit : {<<5, 4>>, <<4, 1>>},
               dash : BOOLEAN] : TRUE }

EmptyBufs == [i \in {} |-> <<>>]

M == [sd |-> sd, bufs |-> bufs, builder |-> builder]

\* the curves of a sequence of subdivider pieces
PieceCurves(ps) == [i \in 1..Len(ps) |-> ps[i].curve]

\* the stroker's variables after a handler returned m
Returns(m) == sd' = m.sd /\ bufs' = m.bufs /\ builder' = m.builder

Walk0 ==
  [ phase |-> "start", cur |-> Pt(0, 0), start |-> Pt(0, 0), nseg |-> 0, nmove |-> 0,
    n |-> 0, last |-> <<0, 0>>, straight |-> TRUE, curvy |-> FALSE, closed |-> FALSE,
    segs |-> <<>> ]

\* the event stroke_op is called for, and the stroker as the call found it
Event(op, pts) ==
  [op |-> op, pts |-> pts,
   pre |-> [sd |-> sd, bufs |-> bufs, builder |-> builder, walk |-> walk]]

SubIdle == [phase |-> "idle", curve |-> ZeroCurve, pieces |-> <<>>]

OttieIdle == [phase |-> "idle"]

\* no trim shape has been created
TrimIdle == [phase |-> "idle"]

\* gsk_contour_default_add_stroke up to the walk: memset, builder, stroke
Init ==
  /\ stroke \in StrokeParams
  /\ sd = StrokeData0
  /\ bufs = EmptyBufs
  /\ builder = <<>>
  /\ walk = Walk0
  /\ ev = [op |-> "none", pts |-> <<>>,
           pre |-> [sd |-> StrokeData0, bufs |-> EmptyBufs, builder |-> <<>>,
                    walk |-> Walk0]]
  /\ sub = SubIdle
  /\ ottie = OttieIdle
  /\ trim = TrimIdle

\* segs keeps the curves add_curve was called for in the contour in progress
Advance(step, isCurve, curves) ==
  [walk EXCEPT !.cur = VAdd(@, step), !.nseg = @ + 1, !.n = @ + 1, !.last = step,
               !.straight = walk.n = 0 \/ (@ /\ step = walk.last),
               !.curvy = @ \/ isCurve, !.segs = @ \o curves]

\* a curve is kept out of the corners of its contour
CanLine(step) ==
  walk.phase = "open" /\ walk.nseg < MaxSegments /\ (walk.curvy => step = walk.last)

CanCurve(step) ==
  /\ walk.phase = "open" /\ walk.nseg < MaxSegments
  /\ walk.n = 0 \/ (walk.straight /\ step = walk.last)

Move(p) ==
  /\ \/ walk.phase = "start"
     \/ walk.phase = "open" /\ stroke.dash /\ walk.nmove < MaxMoves
  /\ Returns(stroke_op_move(M, stroke, p))
  /\ walk' = [walk EXCEPT !.phase = "open", !.cur = p, !.start = p, !.nmove = @ + 1,
                          !.n = 0, !.last = <<0, 0>>, !.straight = TRUE, !.curvy = FALSE,
                          !.segs = <<>>]
  /\ ev' = Event("MOVE", <<p>>)
  /\ UNCHANGED <<stroke, sub, ottie, trim>>

Line(step) ==
  /\ CanLine(step)
  /\ Returns(stroke_op_line(M, stroke, <<walk.cur, VAdd(walk.cur, step)>>))
  /\ walk' = Advance(step, FALSE, <<LineCurve(walk.cur, VAdd(walk.cur, step))>>)
  /\ ev' = Event("LINE", <<walk.cur, VAdd(walk.cur, step)>>)
  /\ UNCHANGED <<stroke, sub, ottie, trim>>

\* a cubic along step with evenly spaced control points
Curve(step) ==
  LET third == <<Div(step[1], 3), Div(step[2], 3)>>
      pts == <<walk.cur, VAdd(walk.cur, third), VAdd(VAdd(walk.cur, third), third),
               VAdd(walk.cur, step)>>
  IN  /\ CanCurve(step)
      /\ Returns(stroke_op_curve(M, stroke, pts))
      /\ walk' = Advance(step, TRUE,
                         PieceCurves(subdivide_and_add_curve(
                           CubicCurve(pts[1], pts[2], pts[3], pts[4]), MAX_SUBDIVISION, Grid)))
      /\ ev' = Event("CURVE", pts)
      /\ UNCHANGED <<stroke, sub, ottie, trim>>

\* a conic of weight 1 along step
Conic(step) ==
  LET half == <<Div(step[1], 2), Div(step[2], 2)>>
      pts == <<walk.cur, VAdd(walk.cur, half), VAdd(walk.cur, step)>>
  IN  /\ CanCurve(step)
      /\ Returns(stroke_op_conic(M, stroke, pts, 1))
      /\ walk' = Advance(step, TRUE,
                         PieceCurves(subdivide_and_add_conic(
                           ConicCurve(pts[1], pts[2], pts[3], 1), MAX_SUBDIVISION)))
      /\ ev' = Event("CONIC", pts)
      /\ UNCHANGED <<stroke, sub, ottie, trim>>

\* the closing line runs along a direction of the family
Close ==
  /\ walk.phase = "open" /\ ~stroke.dash /\ ~walk.curvy
  /\ walk.cur = walk.start \/ Direction(VSub(walk.start, walk.cur)) \in Dirs
  /\ Returns(stroke_op_close(M, stroke, <<walk.cur, walk.start>>))
  /\ walk' = [walk EXCEPT !.phase = "closed", !.cur = walk.start, !.closed = TRUE,
                          !.segs = IF walk.cur # walk.start
                                     THEN @ \o <<LineCurve(walk.cur, walk.start)>> ELSE @]
  /\ ev' = Event("CLOSE", <<walk.cur, walk.start>>)
  /\ UNCHANGED <<stroke, sub, ottie, trim>>

\* the walk returned: the final cap_and_connect_contours and the return
Finish ==
  /\ walk.phase \in {"open", "closed"}
  /\ Returns(add_stroke_end(M, stroke))
  /\ walk' = [walk EXCEPT !.phase = "done"]
  /\ ev' = Event("END", <<>>)
  /\ UNCHANGED <<stroke, sub, ottie, trim>>

Next ==
  \/ \E p \in StartPoints : Move(p)
  \/ \E step \in Steps : Line(step)
  \/ \E step \in CurveSteps : Curve(step)
  \/ \E step \in CurveSteps : Conic(step)
  \/ Close
  \/ Finish

Spec == Init /\ [][Next]_vars

(***************************************************************************)
(* Properties of the stroke call.                                          *)
(***************************************************************************)
Closed(path) == path # <<>> /\ path[Len(path)].op = "close"

IsPrefix(a, b) == Len(a) <= Len(b) /\ SubSeq(b, 1, Len(a)) = a

\* the paths the last event deposited
Deposited == SubSeq(builder, Len(ev.pre.builder) + 1, Len(builder))

\* the last event ended a contour that no CLOSE terminated
EndedOpenContour == ev.op \in {"MOVE", "END"} /\ ev.pre.walk.phase = "open"

HalfWidth == Div(stroke.line_width, 2)

\* C1: every contour that is not terminated by CLOSE (it ends at the next
\* MOVE or at the end of the stream) deposits exactly one sub-path, which
\* ends with close(), and nothing else deposits for it: at the end of a
\* stream of open contours there is one sub-path per contour.
C1_OpenContourDepositsOneClosedPath ==
  /\ EndedOpenContour =>
       /\ IsPrefix(ev.pre.builder, builder)
       /\ Len(Deposited) = 1
       /\ Closed(Deposited[1])
  /\ walk.phase = "open" => Len(builder) = walk.nmove - 1
  /\ (walk.phase = "done" /\ ~walk.closed) => Len(builder) = walk.nmove

C1_Witness ==
  /\ ev.op = "END" /\ ~walk.closed /\ walk.nmove = 2 /\ walk.nseg = 3
  /\ Len(builder) = 2 /\ Closed(builder[1]) /\ Closed(builder[2])

\* C2: every contour terminated by CLOSE deposits exactly two sub-paths, the
\* right outline first and the left outline second, each ending with close().
C2_ClosedContourDepositsTwoClosedPaths ==
  /\ ev.op = "CLOSE" =>
       /\ IsPrefix(ev.pre.builder, builder)
       /\ Len(Deposited) = 2
       /\ Closed(Deposited[1]) /\ Closed(Deposited[2])
       /\ IsPrefix(ev.pre.bufs[ev.pre.sd.right], Deposited[1])
       /\ IsPrefix(ev.pre.bufs[ev.pre.sd.left], Deposited[2])
  /\ walk.closed => Len(builder) = 2

C2_Witness ==
  /\ ev.op = "CLOSE" /\ walk.nseg = 3 /\ walk.cur = walk.start
  /\ Len(builder) = 2
  /\ builder[1][1] # builder[2][1]

\* a move_to that is not the first call of its sub-path follows a close(), and
\* the sub-path ends with close()
EveryMoveClosed(path) ==
  /\ Closed(path)
  /\ \A k \in 2..Len(path) : path[k].op = "move_to" => path[k - 1].op = "close"

\* C3: every sub-path that is deposited is closed: each of its move_to calls
\* is followed by close() before its next move_to and before the deposit.
C3_EveryDepositedContourClosed == \A i \in 1..Len(builder) : EveryMoveClosed(builder[i])

\* C4: the open contour MOVE(0,0); LINE (0,0)->(L,0) with butt caps deposits
\* one closed sub-path that runs through the rectangle corners (0,w/2),
\* (L,w/2), (L,-w/2), (0,-w/2) and back to the first (here L is five units).
C4_SingleLineIsRectangle ==
  ( /\ ev.op = "END" /\ stroke.line_cap = "butt"
    /\ walk.nmove = 1 /\ walk.nseg = 1 /\ ~walk.curvy /\ ~walk.closed
    /\ walk.start = Pt(0, 0) /\ walk.cur = Pt(5 * Grid, 0) ) =>
      builder = << << MoveTo(Pt(0, HalfWidth)), LineTo(Pt(5 * Grid, HalfWidth)),
                      LineTo(Pt(5 * Grid, -HalfWidth)), LineTo(Pt(0, -HalfWidth)),
                      LineTo(Pt(0, HalfWidth)), ClosePath >> >>

C4_Witness ==
  /\ ev.op = "END" /\ stroke.line_cap = "butt"
  /\ walk.nmove = 1 /\ walk.nseg = 1 /\ ~walk.curvy /\ ~walk.closed
  /\ walk.start = Pt(0, 0) /\ walk.cur = Pt(5 * Grid, 0)
  /\ Len(builder) = 1 /\ Len(builder[1]) = 6

\* C7: every left and right buffer a MOVE created is released when its
\* contour is finalised, whether by CLOSE, by the next MOVE or at the end of
\* the stream, so only the buffers of the contour in progress are live and
\* none is live when the call returns.
C7_BuffersReleased ==
  /\ walk.phase \in {"closed", "done"} => DOMAIN bufs = {}
  /\ walk.phase = "open" => DOMAIN bufs = {sd.left, sd.right}

\* C8: a MOVE(p) followed by no segment and then by a MOVE or the end of the
\* stream deposits one closed sub-path: move to r0.start, the end cap to
\* l0.start, the start cap back to r0.start, close, where r0.start and
\* l0.start are p displaced by +w/2 and -w/2 along the y axis.
C8_LoneMoveDepositsDot ==
  (EndedOpenContour /\ ev.pre.walk.n = 0) =>
    LET p == ev.pre.walk.start
        a == Pt(p[1], p[2] + HalfWidth)
        b == Pt(p[1], p[2] - HalfWidth)
        path == Deposited[1]
        k == (Len(path) - 2) \div 2
    IN  /\ Len(Deposited) = 1
        /\ Len(path) \in {4, 8}
        /\ path[1] = MoveTo(a)
        /\ \A i \in 2..(Len(path) - 1) : path[i].op \in {"line_to", "svg_arc_to"}
        /\ OpEnd(path[1 + k], a) = b
        /\ OpEnd(path[1 + 2 * k], b) = a
        /\ path[Len(path)] = ClosePath

C8_Witness ==
  /\ ev.op = "MOVE" /\ ev.pre.walk.phase = "open" /\ ev.pre.walk.n = 0
  /\ ev.pre.walk.start = Pt(12 * Grid, 0)
  /\ Len(builder) = 1 /\ Len(builder[1]) = 8

(***************************************************************************)
(* The miter join at a corner between two lines.                           *)
(***************************************************************************)
\* the last event was a line that met the pending line at a corner, under
\* line_join miter
MiterCorner ==
  /\ ev.op = "LINE" /\ stroke.line_join = "miter"
  /\ ev.pre.sd.has_current_curve /\ ~ev.pre.walk.curvy
  /\ ~IsStraight(angle_between(Direction(ev.pre.walk.last),
                               get_tangent(ev.pts[1], ev.pts[2])))

CornerIn == Direction(ev.pre.walk.last)

CornerOut == get_tangent(ev.pts[1], ev.pts[2])

\* the sub-path that got the join, before and after the event
JoinSide == IF AngleSign(CornerIn, CornerOut) > 0 THEN sd.left ELSE sd.right

JoinBefore == ev.pre.bufs[JoinSide]

JoinAfter == bufs[JoinSide]

\* the calls of the join: those after the flush of the pending offset
JoinCalls == SubSeq(JoinAfter, Len(JoinBefore) + 2, Len(JoinAfter))

\* a: the end of the flushed offset; b: the start of the new offset
JoinA == OpEnd(JoinAfter[Len(JoinBefore) + 1], Pt(0, 0))

JoinB ==
  gsk_curve_get_start_point(IF AngleSign(CornerIn, CornerOut) > 0 THEN sd.l ELSE sd.r)

\* 1 / |sin ((pi - phi) / 2)| <= miter_limit, with sin^2 ((pi - phi) / 2) =
\* (1 + cos phi) / 2 and cos phi = dot / n for directions of length product n
RatioWithinLimit ==
  LET n == ISqrt(VNorm2(CornerIn) * VNorm2(CornerOut))
      num == n + VDot(CornerIn, CornerOut)
  IN  /\ num > 0
      /\ 2 * n * stroke.miter_limit[2] * stroke.miter_limit[2]
           <= num * stroke.miter_limit[1] * stroke.miter_limit[1]

\* a line to a point on both join rays, then a line to b
SharpJoin ==
  /\ Len(JoinCalls) = 2
  /\ JoinCalls[1].op = "line_to" /\ JoinCalls[2] = LineTo(JoinB)
  /\ VCross(VSub(JoinCalls[1].pts[1], JoinA), CornerIn) = 0
  /\ VCross(VSub(JoinCalls[1].pts[1], JoinB), CornerOut) = 0

BevelJoin == JoinCalls = <<LineTo(JoinB)>>

RaysParallel == VCross(CornerIn, CornerOut) = 0

\* what the join does under line_join miter: at every corner whose join rays
\* meet, it is the sharp corner (a line to the miter point, a line to b) if and only
\* if 1 / |sin ((pi - phi) / 2)| <= miter_limit, equality included, for both
\* signs of phi, and the bevel (one line to b) otherwise; at a corner whose
\* rays are parallel (a reversal) the join makes no call.
C5_MiterSharpIffWithinLimit ==
  MiterCorner =>
    IF RaysParallel THEN JoinCalls = <<>>
    ELSE IF RatioWithinLimit THEN SharpJoin ELSE BevelJoin

\* C5 as stated: the sharp corner if the ratio is within the limit, the bevel
\* at every other corner.
C5_MiterSharpElseBevel ==
  MiterCorner => IF RatioWithinLimit THEN SharpJoin ELSE BevelJoin

\* a corner at which the ratio equals the limit 5/4
C5_Witness ==
  /\ MiterCorner /\ stroke.miter_limit = <<5, 4>>
  /\ CornerIn = <<4, 3>> /\ CornerOut = <<4, -3>>
  /\ SharpJoin

(***************************************************************************)
(* The subdivider on its own: the CURVE and CONIC cases of stroke_op for   *)
(* one curve of a battery, keeping the pieces they hand to add_curve.      *)
(* The control points are whole user-space units on a grid of SubGrid      *)
(* units per unit, fine enough for eight halvings of a cubic.              *)
(***************************************************************************)
SubGrid == 4096 * 4096

\* cubics on the x axis from (0,0), by the x coordinates of the other points
CollinearXs ==
  {
    <<-2, -2, -1>>, <<-2, -2, 1>>, <<-2, -2, 2>>, <<-2, -2, 3>>, <<-2, -1, 2>>, <<-2, -1, 3>>, <<-2, 1, -1>>,
    <<-2, 1, 2>>, <<-2, 1, 3>>, <<-2, 2, -1>>, <<-2, 2, 1>>, <<-2, 2, 3>>, <<-2, 3, 1>>, <<-2, 3, 2>>,
    <<-1, -2, 2>>, <<-1, -2, 3>>, <<-1, -1, -2>>, <<-1, -1, 1>>, <<-1, -1, 3>>, <<-1, 1, 3>>, <<-1, 3, 1>>,
    <<-1, 3, 2>>, <<1, -1, 3>>, <<1, 1, -1>>, <<1, 1, 2>>, <<1, 1, 3>>, <<1, 2, -2>>, <<1, 2, 3>>,
    <<1, 3, -1>>, <<2, -2, -1>>, <<2, -2, 1>>, <<2, -2, 3>>, <<2, -1, -2>>, <<2, -1, 1>>, <<2, 1, -2>>,
    <<2, 1, 3>>, <<2, 2, -2>>, <<2, 2, -1>>, <<2, 2, 1>>, <<2, 2, 3>>, <<2, 3, -2>>, <<3, -2, -1>>,
    <<3, -2, 2>>, <<3, -1, -2>>, <<3, -1, 1>>, <<3, -1, 2>>, <<3, 1, -2>>, <<3, 1, -1>>, <<3, 2, -2>>,
    <<3, 2, -1>>, <<3, 3, -1>>, <<3, 3, 1>> }

\* cubics from (0,0), by the coordinates of the other points
PlanarCubics ==
  {
    <<0, 1, 0, 0, 1, 0>>, <<0, 1, 0, 0, 1, 1>>, <<0, 1, 0, 0, 1, 2>>, <<0, 1, 0, 1, 0, 2>>,
    <<0, 1, 0, 1, 1, 0>>, <<0, 1, 0, 1, 1, 1>>, <<0, 1, 0, 1, 2, 0>>, <<0, 1, 0, 1, 2, 1>>,
    <<0, 1, 0, 2, 1, 0>>, <<0, 1, 0, 2, 1, 1>>, <<0, 1, 0, 2, 1, 2>>, <<0, 1, 1, 0, 0, 1>>,
    <<0, 1, 1, 1, 0, 1>>, <<0, 1, 1, 2, 0, 1>>, <<0, 1, 1, 2, 2, 1>>, <<0, 1, 2, 0, 1, 0>> }

\* cubics from (0,0) with three curvature points inside (0,1)
CurvatureCubics ==
  { <<1, 1, 0, 3, 1, 0>>, <<1, 3, 0, 1, 1, 0>>, <<0, 1, -3, 0, 1, 1>>, <<0, 1, -1, 0, 3, 1>> }

\* conics of weight 1 from (0,0), by the coordinates of the other points
PlanarConics ==
  {
    <<-1, 0, -1, 1>>, <<-1, 0, 1, 2>>, <<-1, 1, 0, 2>>, <<-1, 1, 2, 2>>, <<-1, 2, 1, 1>>,
    <<0, 1, -1, 1>>, <<0, 1, 2, 0>>, <<0, 2, 0, 1>>, <<0, 2, 2, 2>>, <<1, 0, -1, 0>>,
    <<1, 0, 1, 1>>, <<1, 1, -1, 1>>, <<1, 1, 2, 0>>, <<1, 2, 0, 1>>, <<1, 2, 2, 2>>,
    <<2, 0, 1, 0>>, <<2, 1, -1, 1>>, <<2, 1, 1, 2>>, <<2, 2, 0, 1>>, <<2, 2, 2, 1>> }

UserPt(x, y) == Pt(x * SubGrid, y * SubGrid)

Battery ==
  { CubicCurve(UserPt(0, 0), UserPt(x[1], 0), UserPt(x[2], 0), UserPt(x[3], 0)) :
      x \in CollinearXs }
  \cup { CubicCurve(UserPt(0, 0), UserPt(c[1], c[2]), UserPt(c[3], c[4]), UserPt(c[5], c[6])) :
           c \in PlanarCubics \cup CurvatureCubics }
  \cup { ConicCurve(UserPt(0, 0), UserPt(c[1], c[2]), UserPt(c[3], c[4]), 1) :
           c \in PlanarConics }

\* the stroke parameters of a call that is not looked at
DefaultStroke ==
  [line_width |-> 2 * Grid, line_cap |-> "butt", line_join |-> "bevel",
   miter_limit |-> <<4, 1>>, dash |-> FALSE]

StrokerIdle ==
  /\ stroke = DefaultStroke
  /\ sd = StrokeData0
  /\ bufs = EmptyBufs
  /\ builder = <<>>
  /\ walk = Walk0
  /\ ev = [op |-> "none", pts |-> <<>>,
           pre |-> [sd |-> StrokeData0, bufs |-> EmptyBufs, builder |-> <<>>,
                    walk |-> Walk0]]

SubdivInit ==
  /\ StrokerIdle
  /\ ottie = OttieIdle
  /\ trim = TrimIdle
  /\ sub \in { [phase |-> "event", curve |-> c, pieces |-> <<>>] : c \in Battery }

\* case GSK_PATH_CURVE
SubdivideCurve ==
  /\ sub.phase = "event" /\ sub.curve.op = "curve"
  /\ sub' = [sub EXCEPT !.phase = "done",
                        !.pieces = subdivide_and_add_curve(sub.curve, MAX_SUBDIVISION, SubGrid)]
  /\ UNCHANGED <<stroke, sd, bufs, builder, walk, ev, ottie, trim>>

\* case GSK_PATH_CONIC
SubdivideConic ==
  /\ sub.phase = "event" /\ sub.curve.op = "conic"
  /\ sub' = [sub EXCEPT !.phase = "done",
                        !.pieces = subdivide_and_add_conic(sub.curve, MAX_SUBDIVISION)]
  /\ UNCHANGED <<stroke, sd, bufs, builder, walk, ev, ottie, trim>>

SubdivNext == SubdivideCurve \/ SubdivideConic

SubdivSpec == SubdivInit /\ [][SubdivNext]_vars

IsSimple(curve) ==
  IF curve.op = "curve" THEN cubic_is_simple(curve) ELSE conic_is_simple(curve)

\* C6: every piece that the subdivider hands to add_curve at a level above 0
\* satisfies the simple predicate of its kind; a piece that reaches level 0
\* is handed over without the test.
C6_PiecesAboveLevelZeroSimple ==
  \A i \in 1..Len(sub.pieces) :
    sub.pieces[i].level > 0 => IsSimple(sub.pieces[i].curve)

\* C6 as stated: every piece that the subdivider hands to add_curve satisfies
\* the simple predicate of its kind.
C6_EveryPieceSimple ==
  \A i \in 1..Len(sub.pieces) : IsSimple(sub.pieces[i].curve)

\* a cubic split at its curvature points and halved further, all pieces simple
C6_Witness ==
  /\ sub.phase = "done" /\ sub.curve.op = "curve"
  /\ Len(sub.pieces) >= 5
  /\ \E i \in 1..Len(sub.pieces) : sub.pieces[i].level = 7
  /\ \E i \in 1..Len(sub.pieces) : sub.pieces[i].level < 6
  /\ \A i \in 1..Len(sub.pieces) :
       sub.pieces[i].level > 0 /\ IsSimple(sub.pieces[i].curve)

(***************************************************************************)
(* OttieCreation (ottie/ottiecreation.c): the asynchronous load.  A load   *)
(* is numbered by the call of ottie_creation_load_file that started it and *)
(* its GCancellable carries that number.  pending[id] is the callback of   *)
(* load id that the main loop still has to deliver; g_file_read_finish and *)
(* json_parser_load_from_stream_finish report G_IO_ERROR_CANCELLED to the  *)
(* callback of a load whose cancellable was cancelled.                     *)
(***************************************************************************)
Loads == 1..MaxLoads

Ottie0 ==
  [ phase |-> "live", cancellable |-> NULL, cancelled |-> {},
    pending |-> [id \in Loads |-> "none"],
    frame_rate |-> 0, layers |-> <<>>, nloads |-> 0, disposed |-> FALSE, ended |-> {} ]

\* the documents a file may hold: its frame rate (0: none given) and the
\* number of its layers
Documents == [fr : {0, 30}, layers : 0..2]

\* a variant of ottie_creation_stop_loading that cancels and keeps the cancellable
stop_loading_keeping_cancellable(o, emit) ==
  IF o.cancellable = NULL THEN o
  ELSE [o EXCEPT !.cancelled = @ \cup {o.cancellable}]

ottie_creation_stop_loading(o, emit) ==
  IF o.cancellable = NULL THEN o
  ELSE [o EXCEPT !.cancelled = @ \cup {o.cancellable}, !.cancellable = NULL]

ottie_creation_reset(o) == [o EXCEPT !.layers = <<>>, !.frame_rate = 0]

ottie_creation_is_loading(o) == o.cancellable # NULL

ottie_creation_is_prepared(o) == o.frame_rate > 0

\* ottie_creation_load_from_node: the attributes and the layers of the document
ottie_creation_load_from_node(o, doc, id) ==
  [o EXCEPT !.frame_rate = doc.fr,
            !.layers = @ \o [i \in 1..doc.layers |-> id]]

OttieInit ==
  /\ StrokerIdle
  /\ sub = SubIdle
  /\ ottie = Ottie0
  /\ trim = TrimIdle

OttieFrame == UNCHANGED <<stroke, sd, bufs, builder, walk, ev, sub, trim>>

\* ottie_creation_load_file
LoadFile ==
  /\ ~ottie.disposed /\ ottie.nloads < MaxLoads
  /\ LET id == ottie.nloads + 1
         o1 == ottie_creation_stop_loading(ottie, FALSE)
         o2 == IF o1.frame_rate # 0 THEN ottie_creation_reset(o1) ELSE o1
     IN  ottie' = [o2 EXCEPT !.cancellable = id, !.pending[id] = "open", !.nloads = id]
  /\ OttieFrame

\* ottie_creation_load_file_open, delivered for load id with or without a stream
FileOpened(id, opened) ==
  /\ ottie.pending[id] = "open"
  /\ ottie' =
       IF id \in ottie.cancelled THEN [ottie EXCEPT !.pending[id] = "none"]
       ELSE IF ~opened
         THEN LET o1 == ottie_creation_stop_loading(ottie, TRUE)
              IN  [o1 EXCEPT !.pending[id] = "none", !.ended = @ \cup {id}]
       ELSE [ottie EXCEPT !.pending[id] = "parse"]
  /\ OttieFrame

\* a variant of ottie_creation_load_file_parsed without the return on
\* G_IO_ERROR_CANCELLED
FileParsed_ignoring_cancel(id, parsed, doc) ==
  /\ ottie.pending[id] = "parse"
  /\ ottie' =
       IF ~parsed \/ id \in ottie.cancelled
         THEN LET o1 == ottie_creation_stop_loading(ottie, TRUE)
              IN  [o1 EXCEPT !.pending[id] = "none", !.ended = @ \cup {id}]
       ELSE LET o1 == ottie_creation_load_from_node(ottie, doc, id)
                o2 == ottie_creation_stop_loading(o1, TRUE)
            IN  [o2 EXCEPT !.pending[id] = "none", !.ended = @ \cup {id}]
  /\ OttieFrame

\* ottie_creation_load_file_parsed, delivered for load id with or without a document
FileParsed(id, parsed, doc) ==
  /\ ottie.pending[id] = "parse"
  /\ ottie' =
       IF id \in ottie.cancelled THEN [ottie EXCEPT !.pending[id] = "none"]
       ELSE IF ~parsed
         THEN LET o1 == ottie_creation_stop_loading(ottie, TRUE)
              IN  [o1 EXCEPT !.pending[id] = "none", !.ended = @ \cup {id}]
       ELSE LET o1 == ottie_creation_load_from_node(ottie, doc, id)
                o2 == ottie_creation_stop_loading(o1, TRUE)
            IN  [o2 EXCEPT !.pending[id] = "none", !.ended = @ \cup {id}]
  /\ OttieFrame

\* ottie_creation_dispose
Dispose ==
  /\ ~ottie.disposed
  /\ ottie' = [ottie_creation_reset(ottie_creation_stop_loading(ottie, FALSE))
                 EXCEPT !.disposed = TRUE]
  /\ OttieFrame

Deliver ==
  \/ \E id \in Loads, opened \in BOOLEAN : FileOpened(id, opened)
  \/ \E id \in Loads, parsed \in BOOLEAN, doc \in Documents : FileParsed(id, parsed, doc)

OttieNext ==
  \/ LoadFile
  \/ Deliver
  \/ Dispose

OttieSpec == OttieInit /\ [][OttieNext]_vars

\* the main loop delivers every callback it holds
OttieLive == OttieSpec /\ WF_vars(Deliver)

\* the latest load is in progress: its terminal callback did not run yet
LatestInProgress ==
  ottie.nloads > 0 /\ ~ottie.disposed /\ ottie.nloads \notin ottie.ended

\* C10: from the call of ottie_creation_load_file until the terminal callback
\* of that load (open failure, parse failure or parse success) runs,
\* ottie_creation_is_loading returns TRUE, and FALSE afterwards; and every
\* load that started leaves the loading state: its callbacks are delivered,
\* unless a later load_file or dispose supersedes it first.
C10_LoadingUntilTerminalCallback ==
  /\ [](ottie.phase = "live" =>
          /\ ottie_creation_is_loading(ottie) <=> LatestInProgress
          /\ ottie_creation_is_loading(ottie) => ottie.cancellable = ottie.nloads)
  /\ \A id \in Loads : (ottie.cancellable = id) ~> (ottie.cancellable # id)

\* the second load ended by its terminal callback after it superseded the first
C10_Witness ==
  /\ ottie.phase = "live" /\ ottie.nloads = 2 /\ ~ottie.disposed
  /\ ottie.ended = {2} /\ ottie.cancelled = {1, 2}
  /\ ~ottie_creation_is_loading(ottie)
  /\ ottie_creation_is_prepared(ottie)

(***************************************************************************)
(* The GObject properties of an OttieCreation.                             *)
(***************************************************************************)
\* ottie_creation_get_property for the two boolean properties: the value
\* g_object_get_property hands in is initialised to FALSE, and a property
\* id without a case is left at that after the warning
ottie_creation_get_property(o, prop) ==
  CASE prop = "prepared" -> o.cancellable # NULL
    [] OTHER -> FALSE

\* C11: in every reachable state of an OttieCreation the property
\* "prepared" reads as ottie_creation_is_prepared() and the property
\* "loading" reads as ottie_creation_is_loading().
C11_PropertiesMatchGetters ==
  ottie.phase = "live" =>
    /\ ottie_creation_get_property(ottie, "prepared") = ottie_creation_is_prepared(ottie)
    /\ ottie_creation_get_property(ottie, "loading") = ottie_creation_is_loading(ottie)

(***************************************************************************)
(* The first segment of a contour.                                         *)
(***************************************************************************)
\* the calls the sub-path with the handle id holds
SubPath(id) == IF id \in DOMAIN bufs THEN bufs[id] ELSE <<>>

\* the sub-path buf of a contour in progress holds nothing of first, the
\* stored first offset of its side: it is the move to the start of first
\* while is_first_curve is set, and afterwards that move, the move to the
\* end of first, and calls that draw from there on
FirstHeldAside(buf, first) ==
  /\ buf # <<>> /\ buf[1] = MoveTo(gsk_curve_get_start_point(first))
  /\ sd.is_first_curve => buf = <<MoveTo(gsk_curve_get_start_point(first))>>
  /\ ~sd.is_first_curve =>
       /\ Len(buf) >= 2 /\ buf[2] = MoveTo(gsk_curve_get_end_point(first))
       /\ \A i \in 3..Len(buf) : buf[i].op \notin {"move_to", "close"}

\* the last event was the second segment of its contour: add_segments ran
\* with is_first_curve set
SecondSegment ==
  /\ ev.op \in {"LINE", "CURVE", "CONIC"}
  /\ ev.pre.sd.has_current_curve /\ ev.pre.sd.is_first_curve

\* append_left or append_right stored a part of the pending offset (all of
\* it, or what the intersection left of it) and moved to its end
StoredAndMoved(before, pending, first, buf) ==
  /\ first.op = pending.op
  /\ gsk_curve_get_start_point(first) = gsk_curve_get_start_point(pending)
  /\ Len(buf) > Len(before) /\ SubSeq(buf, 1, Len(before)) = before
  /\ buf[Len(before) + 1] = MoveTo(gsk_curve_get_end_point(first))

\* C12: while is_first_curve is set, append_left and append_right do not
\* add the curve to the sub-path: they store it in l0 / r0 and move to its
\* end point; so nothing of the first segment's offsets is in the left or
\* the right sub-path while the contour is in progress.
C12_FirstSegmentHeldAside ==
  /\ (walk.phase = "open" /\ sd.has_current_curve) =>
       /\ FirstHeldAside(SubPath(sd.right), sd.r0)
       /\ FirstHeldAside(SubPath(sd.left), sd.l0)
  /\ SecondSegment =>
       /\ StoredAndMoved(ev.pre.bufs[sd.right], ev.pre.sd.r, sd.r0, SubPath(sd.right))
       /\ StoredAndMoved(ev.pre.bufs[sd.left], ev.pre.sd.l, sd.l0, SubPath(sd.left))

\* a contour in progress after its third segment, the second of which cut
\* the stored first offset on the right
C12_Witness ==
  /\ walk.phase = "open" /\ walk.n = 3 /\ ~sd.is_first_curve
  /\ Len(SubPath(sd.right)) >= 3 /\ Len(SubPath(sd.left)) >= 3
  /\ sd.r0 # gsk_curve_offset(sd.c0, HalfWidth)
  /\ FirstHeldAside(SubPath(sd.right), sd.r0)

(***************************************************************************)
(* The offsets of the segments in the deposited output.                    *)
(***************************************************************************)
\* the point the call path[i] of a deposited path starts at
CallStart(path, i) == IF i = 1 THEN Pt(0, 0) ELSE path[i - 1].pts[Len(path[i - 1].pts)]

\* p is on the line segment x
OnSegment(p, x) ==
  /\ VCross(VSub(p, x.pts[1]), VSub(x.pts[2], x.pts[1])) = 0
  /\ VDot(VSub(p, x.pts[1]), VSub(x.pts[2], x.pts[1])) >= 0
  /\ VDot(VSub(p, x.pts[1]), VSub(x.pts[2], x.pts[1])) <= VNorm2(VSub(x.pts[2], x.pts[1]))

\* the call o, which starts at from, draws the offset x or, for a line,
\* what the joins left of it: a part of x with its direction
DrawsOffset(o, from, x) ==
  CASE x.op = "line" ->
         /\ o.op = "line_to" /\ o.pts[1] # from
         /\ OnSegment(from, x) /\ OnSegment(o.pts[1], x)
         /\ VDot(VSub(o.pts[1], from), VSub(x.pts[2], x.pts[1])) > 0
    [] x.op = "curve" -> o.op = "curve_to" /\ <<from>> \o o.pts = x.pts
    [] x.op = "conic" -> o.op = "conic_to" /\ <<from>> \o o.pts = x.pts /\ o.a = <<x.w>>
    [] OTHER -> FALSE

\* the call o is a line of no length at a point of the line x: what is
\* left of an offset where the cuts at its two ends met
DrawsPointOf(o, from, x) ==
  x.op = "line" /\ o.op = "line_to" /\ o.pts[1] = from /\ OnSegment(from, x)

\* the lines <<from, to>> of the calls a cap or a join makes from the point s on
LinesOf(s, calls) ==
  { <<IF i = 1 THEN s ELSE calls[i - 1].pts[1], calls[i].pts[1]>> : i \in 1..Len(calls) }

\* the lines of the two caps of the open contour that ended, from the
\* stroker as the event found it
CapLines ==
  LET s0 == ev.pre.sd
  IN  LinesOf(gsk_curve_get_end_point(s0.r),
              add_line_cap(stroke, gsk_curve_get_end_point(s0.r),
                           gsk_curve_get_end_point(s0.l)))
        \cup LinesOf(gsk_curve_get_start_point(s0.l0),
                     add_line_cap(stroke, gsk_curve_get_start_point(s0.l0),
                                  gsk_curve_get_start_point(s0.r0)))

\* the number of calls of path, the lines in caps aside, that draw x
TimesDrawn(path, caps, x) ==
  Cardinality({ i \in 1..Len(path) :
                  /\ path[i].op \notin {"move_to", "close"}
                  /\ <<CallStart(path, i), path[i].pts[1]>> \notin caps
                  /\ DrawsOffset(path[i], CallStart(path, i), x) })

\* the number of calls of path, the lines in caps aside, that draw the whole
\* of x
TimesDrawnWhole(path, caps, x) ==
  Cardinality({ i \in 1..Len(path) :
                  /\ path[i].op \notin {"move_to", "close"}
                  /\ <<CallStart(path, i), path[i].pts[1]>> \notin caps
                  /\ DrawsOffset(path[i], CallStart(path, i), x)
                  /\ CallStart(path, i) = gsk_curve_get_start_point(x)
                  /\ path[i].pts[Len(path[i].pts)] = gsk_curve_get_end_point(x) })

\* the number of calls of path that may be x cut down to one point
PointsDrawn(path, x) ==
  Cardinality({ i \in 1..Len(path) :
                  path[i].op \notin {"move_to", "close"}
                    /\ DrawsPointOf(path[i], CallStart(path, i), x) })

\* the offsets x and y run along one line in one direction and share a
\* point: a call that draws a part of one may draw a part of the other
RunsAlong(x, y) ==
  \/ x = y
  \/ /\ x.op = "line" /\ y.op = "line"
     /\ VCross(VSub(x.pts[2], x.pts[1]), VSub(y.pts[2], y.pts[1])) = 0
     /\ VDot(VSub(x.pts[2], x.pts[1]), VSub(y.pts[2], y.pts[1])) > 0
     /\ \/ OnSegment(x.pts[1], y) \/ OnSegment(x.pts[2], y)
        \/ OnSegment(y.pts[1], x) \/ OnSegment(y.pts[2], x)

\* every offset of the sequence xs is drawn as often as it is in xs: the
\* whole of it not more often (the offsets that run along it counted with
\* it; a connector or a join may run along a part of it), and a part of it
\* not less often unless as a single point
EachDrawnOnce(path, caps, xs) ==
  \A j \in 1..Len(xs) :
    LET times == Cardinality({ k \in 1..Len(xs) : xs[k] = xs[j] })
        along == Cardinality({ k \in 1..Len(xs) : RunsAlong(xs[k], xs[j]) })
    IN  /\ TimesDrawnWhole(path, caps, xs[j]) <= along
        /\ TimesDrawn(path, caps, xs[j]) + PointsDrawn(path, xs[j]) >= times

\* the offsets of the segments segs: the right ones, the left ones, and
\* the left ones as the combined outline of an open contour runs them
RightOffsets(segs) == [j \in 1..Len(segs) |-> gsk_curve_offset(segs[j], HalfWidth)]

LeftOffsets(segs) == [j \in 1..Len(segs) |-> gsk_curve_offset(segs[j], -HalfWidth)]

LeftOffsetsBack(segs) ==
  [j \in 1..Len(segs) |-> gsk_curve_reverse(gsk_curve_offset(segs[j], -HalfWidth))]

\* C13: for every contour the right and the left offset of each accepted
\* segment, as its joins trimmed it, is drawn exactly once in the deposited
\* output, for an open contour (one outline holding the right offsets and
\* the left ones backwards) and for a closed one (the right and the left
\* outline), with one segment or with several.
C13_EveryOffsetDrawnOnce ==
  /\ (EndedOpenContour /\ ev.pre.walk.segs # <<>>) =>
       /\ Len(Deposited) = 1
       /\ EachDrawnOnce(Deposited[1], CapLines,
                        RightOffsets(ev.pre.walk.segs) \o LeftOffsetsBack(ev.pre.walk.segs))
  /\ ev.op = "CLOSE" =>
       /\ Len(Deposited) = 2
       /\ EachDrawnOnce(Deposited[1], {}, RightOffsets(walk.segs))
       /\ EachDrawnOnce(Deposited[2], {}, LeftOffsets(walk.segs))

\* an open contour of three segments ended, and so did a closed one
C13_Witness ==
  \/ EndedOpenContour /\ Len(ev.pre.walk.segs) = 3 /\ ~ev.pre.walk.curvy
       /\ ev.pre.walk.segs[1] = ev.pre.walk.segs[3]
  \/ ev.op = "CLOSE" /\ Len(walk.segs) = 3 /\ stroke.line_join = "miter"

\* the segment b runs back along the segment a
Reverses(a, b) ==
  /\ VCross(gsk_curve_get_end_tangent(a), gsk_curve_get_start_tangent(b)) = 0
  /\ VDot(gsk_curve_get_end_tangent(a), gsk_curve_get_start_tangent(b)) < 0

\* the segments segs turn back on themselves at a corner, the closing one
\* of a closed contour included
HasReversal(segs, closed) ==
  \/ \E j \in 1..(Len(segs) - 1) : Reverses(segs[j], segs[j + 1])
  \/ closed /\ segs # <<>> /\ Reverses(segs[Len(segs)], segs[1])

(***************************************************************************)
(* The corner between the pending segment and a new line: add_segments.    *)
(***************************************************************************)
\* the last event was a line that found a pending segment
LineAtCorner == ev.op = "LINE" /\ ev.pre.sd.has_current_curve

NewSegment == LineCurve(ev.pts[1], ev.pts[2])

\* phi, the angle from the end tangent of the pending segment to the start
\* tangent of the new one
Turn == TurnAngle(ev.pre.sd.c, NewSegment)

\* r' and l', the offsets of the new segment
NewRight == gsk_curve_offset(NewSegment, HalfWidth)

NewLeft == gsk_curve_offset(NewSegment, -HalfWidth)

\* the calls the event added to the sub-path with the handle id
Gain(id) == SubSeq(bufs[id], Len(ev.pre.bufs[id]) + 1, Len(bufs[id]))

\* the calls of a flush of the pending offset x: append_right / append_left
Flush(x) ==
  IF ev.pre.sd.is_first_curve
    THEN <<MoveTo(gsk_curve_get_end_point(x))>>
    ELSE <<path_builder_add_curve(x)>>

\* the calls of the join from the end of the pending offset x to the start
\* of the new offset y, around the start of the new segment
JoinBetween(x, y) ==
  add_line_join(stroke, gsk_curve_get_start_point(NewSegment),
                gsk_curve_get_end_point(x), gsk_curve_get_end_tangent(ev.pre.sd.c),
                gsk_curve_get_start_point(y), gsk_curve_get_start_tangent(NewSegment),
                Turn)

RightHit == gsk_curve_intersect(ev.pre.sd.r, NewRight)

LeftHit == gsk_curve_intersect(ev.pre.sd.l, NewLeft)

PositiveTurn == LineAtCorner /\ ~IsStraight(Turn) /\ Turn.sign > 0

\* the corner of the contour MOVE (0,0); LINE -> (10,0); LINE -> (10,10)
\* under miter_limit 4, in half widths: from direction (1,0) to (0,1)
SquareCorner ==
  /\ PositiveTurn /\ stroke.line_join = "miter" /\ stroke.miter_limit = <<4, 1>>
  /\ gsk_curve_get_end_tangent(ev.pre.sd.c) = <<1, 0>>
  /\ gsk_curve_get_start_tangent(NewSegment) = <<0, 1>>

\* C14: at a turn with phi > 0 and |phi| >= 5 degrees the intersection is
\* attempted on the right pair (r, r'): on a hit at (t1, t2) the pending r
\* becomes its part [0, t1], r' its part [t2, 1], and r is flushed with no
\* connector; without a hit r is flushed whole and a line is drawn to the
\* start of r'.  The pending l is flushed whole and the join is made on the
\* left sub-path from the end of l to the start of l' around the start of
\* the new segment.  At the corner of the example, with the corner at c and
\* half the line width h, the left sub-path gets the miter point
\* c + (h, -h) and the right offsets are cut at c + (-h, h).
C14_PositiveTurnCutsRightJoinsLeft ==
  PositiveTurn =>
    /\ IF RightHit.n > 0
         THEN /\ Gain(sd.right) = Flush(gsk_curve_split(ev.pre.sd.r, RightHit.t1)[1])
              /\ sd.r = gsk_curve_split(NewRight, RightHit.t2)[2]
         ELSE /\ Gain(sd.right) =
                   Flush(ev.pre.sd.r) \o <<LineTo(gsk_curve_get_start_point(NewRight))>>
              /\ sd.r = NewRight
    /\ Gain(sd.left) = Flush(ev.pre.sd.l) \o JoinBetween(ev.pre.sd.l, NewLeft)
    /\ sd.l = NewLeft
    /\ SquareCorner =>
         /\ Gain(sd.left) =
              Flush(ev.pre.sd.l)
                \o <<LineTo(VAdd(ev.pts[1], <<HalfWidth, -HalfWidth>>)),
                     LineTo(VAdd(ev.pts[1], <<HalfWidth, 0>>))>>
         /\ RightHit.n > 0
         /\ gsk_curve_get_start_point(sd.r) = VAdd(ev.pts[1], <<-HalfWidth, HalfWidth>>)
         /\ Gain(sd.right)[1].pts[Len(Gain(sd.right)[1].pts)]
              = VAdd(ev.pts[1], <<-HalfWidth, HalfWidth>>)

\* the corner of the example, reached on the second segment of the contour
\* MOVE (0,0); LINE -> (5,0); LINE -> (5,5) in user units of Grid
C14_Witness ==
  /\ SquareCorner /\ ev.pre.sd.is_first_curve
  /\ ev.pts = <<Pt(5 * Grid, 0), Pt(5 * Grid, 5 * Grid)>>
  /\ sd.r0 = LineCurve(Pt(0, Grid), Pt(4 * Grid, Grid))

\* the calls Gain(id) are the flush of a part [0, t] of the pending offset x
\* and nothing else
FlushOfPart(id, x) ==
  /\ Len(Gain(id)) = 1
  /\ \E t \in {<<1, 1>>, RightHit.t1, LeftHit.t1} : Gain(id) = Flush(gsk_curve_split(x, t)[1])

\* the calls Gain(id) are the flush of the whole pending offset x and a
\* join to the start of the new offset y
FlushAndJoin(id, x, y) == Gain(id) = Flush(x) \o JoinBetween(x, y)

\* the new offset y was cut at its start
CutAtStart(pending, y) ==
  gsk_curve_get_start_point(pending) # gsk_curve_get_start_point(y)

SharpTurn == LineAtCorner /\ ~IsStraight(Turn)

\* the sub-path id got the join: the whole pending offset x was flushed, the
\* join made to the start of the new offset y, and y is pending whole
Joined(id, x, y, pending) == FlushAndJoin(id, x, y) /\ pending = y

\* the sub-path id got the intersection attempt with the outcome hit: after
\* a hit the part [0, t1] of x was flushed and the part [t2, 1] of y is
\* pending; without one x was flushed whole, a line drawn to the start of y
\* and y is pending whole
Intersected(id, x, y, pending, hit) ==
  IF hit.n > 0
    THEN /\ Gain(id) = Flush(gsk_curve_split(x, hit.t1)[1])
         /\ pending = gsk_curve_split(y, hit.t2)[2]
    ELSE /\ Gain(id) = Flush(x) \o <<LineTo(gsk_curve_get_start_point(y))>>
         /\ pending = y

JoinedLeft == Joined(sd.left, ev.pre.sd.l, NewLeft, sd.l)

JoinedRight == Joined(sd.right, ev.pre.sd.r, NewRight, sd.r)

IntersectedLeft == Intersected(sd.left, ev.pre.sd.l, NewLeft, sd.l, LeftHit)

IntersectedRight == Intersected(sd.right, ev.pre.sd.r, NewRight, sd.r, RightHit)

\* C16: at every turn that is not straight, of either sign, one side gets
\* the join and the opposite side the intersection attempt, never both on
\* one side and never neither; the offsets of the joined side stay whole.
\* (A round join is an arc, which no intersection attempt draws: under
\* round joins the two sides cannot both have got a join.)
C16_OneSideJoinedOtherIntersected ==
  SharpTurn =>
    /\ \/ JoinedLeft /\ IntersectedRight
       \/ JoinedRight /\ IntersectedLeft
    /\ stroke.line_join = "round" => ~(JoinedLeft /\ JoinedRight)
    /\ (RightHit.n > 0 /\ LeftHit.n > 0) => ~(IntersectedLeft /\ IntersectedRight)

\* a turn with angle < 0 under round joins at which the left pair met: the
\* right sub-path got the arc, the left offsets were cut
C16_Witness ==
  /\ SharpTurn /\ Turn.sign < 0 /\ stroke.line_join = "round"
  /\ LeftHit.n > 0 /\ CutAtStart(sd.l, NewLeft)
  /\ JoinedRight /\ IntersectedLeft

\* the new line continues the pending segment: |phi| < 5 degrees
StraightTurn == LineAtCorner /\ IsStraight(Turn)

\* the whole pending offset x was flushed and a line drawn from its end to
\* the start of the new offset y, which is pending whole
FlushedAndConnected(id, x, y, pending) ==
  /\ Gain(id) = Flush(x) \o <<LineTo(gsk_curve_get_start_point(y))>>
  /\ pending = y

\* the angle whose tangent is n / d, for d > 0, as far as IsStraight reads it
TurnOfTangent(n, d) == [sin |-> n, cos |-> d, sign |-> Sgn(n)]

CurrentPoint(path) == CallStart(path, Len(path) + 1)

\* the stroker as the last event found it
Found == [sd |-> ev.pre.sd, bufs |-> ev.pre.bufs, builder |-> ev.pre.builder]

\* the event found a contour in progress with a pending segment
FoundPending == ev.op # "none" /\ ev.pre.walk.phase = "open" /\ ev.pre.sd.has_current_curve

\* the first thing every handler does with a pending segment whose offsets
\* are not held aside is path_builder_add_curve of r (or of its part
\* [0, t1]) on the right sub-path and of l on the left one
FlushStartsAtCurrentPoint(m) ==
  (m.sd.has_current_curve /\ ~m.sd.is_first_curve) =>
    /\ CurrentPoint(m.bufs[m.sd.right]) = gsk_curve_get_start_point(m.sd.r)
    /\ CurrentPoint(m.bufs[m.sd.left]) = gsk_curve_get_start_point(m.sd.l)

\* cap_and_connect_contours: path is the deposited outline, which ends with
\* the reverse of l0, the start cap, r0 and the close
ExtrasStartAtCurrentPoint(path) ==
  LET n == Len(path)
      cap == add_line_cap(stroke, gsk_curve_get_start_point(ev.pre.sd.l0),
                          gsk_curve_get_start_point(ev.pre.sd.r0))
  IN  /\ path[n - 1] = path_builder_add_curve(ev.pre.sd.r0)
      /\ CallStart(path, n - 1) = gsk_curve_get_start_point(ev.pre.sd.r0)
      /\ path[n - 2 - Len(cap)] = path_builder_add_curve(gsk_curve_reverse(ev.pre.sd.l0))
      /\ CallStart(path, n - 2 - Len(cap)) = gsk_curve_get_end_point(ev.pre.sd.l0)

\* close_contours: path is a deposited outline, which ends with the curve
\* pending after the join with the first segment, and the close
LastStartsAtCurrentPoint(path, pending) ==
  /\ path[Len(path) - 1] = path_builder_add_curve(pending)
  /\ CallStart(path, Len(path) - 1) = gsk_curve_get_start_point(pending)

\* the stroker after the closing line of a CLOSE, if there is one
AfterClosingLine ==
  IF ev.pts[1] # ev.pts[2] THEN add_curve(Found, stroke, NewSegment) ELSE Found

\* C18: whenever path_builder_add_curve appends a curve to the left, the
\* right or the combined sub-path, the current point of that sub-path is
\* the start point of the curve: at the flush of a pending offset by the
\* next segment or by the end of the contour, at the curves added around
\* the caps of an open contour, and at the curves added when a contour is
\* closed.
C18_AddCurveStartsAtCurrentPoint ==
  /\ FoundPending => FlushStartsAtCurrentPoint(Found)
  /\ (FoundPending /\ EndedOpenContour) =>
       /\ CurrentPoint(ev.pre.bufs[ev.pre.sd.right]) = gsk_curve_get_start_point(ev.pre.sd.r)
       /\ CurrentPoint(ev.pre.bufs[ev.pre.sd.left]) = gsk_curve_get_start_point(ev.pre.sd.l)
       /\ ~ev.pre.sd.is_first_curve => ExtrasStartAtCurrentPoint(Deposited[1])
  /\ (FoundPending /\ ev.op = "CLOSE") =>
       /\ FlushStartsAtCurrentPoint(AfterClosingLine)
       /\ LastStartsAtCurrentPoint(Deposited[1], sd.r)
       /\ LastStartsAtCurrentPoint(Deposited[2], sd.l)

\* no corner of the contour the event found, or closed, is a reversal under
\* a miter join
NoMiterReversal ==
  \/ stroke.line_join \notin {"miter", "miter_clip"}
  \/ ~HasReversal(ev.pre.walk.segs, FALSE) /\ ~HasReversal(walk.segs, ev.op = "CLOSE")

\* away from reversals under miter joins every path_builder_add_curve starts
\* at the current point, and every offset is drawn once
ElsewhereAddCurveStartsAtCurrentPoint ==
  NoMiterReversal => C18_AddCurveStartsAtCurrentPoint

ElsewhereEveryOffsetDrawnOnce == NoMiterReversal => C13_EveryOffsetDrawnOnce

(***************************************************************************)
(* The miter join between parallel rays.                                   *)
(***************************************************************************)
\* a corner under a miter join at which the new line runs back along the
\* pending segment: the join rays are parallel
ParallelRays ==
  /\ SharpTurn /\ stroke.line_join \in {"miter", "miter_clip"}
  /\ Turn.sin = 0

\* the sub-path id got the whole pending offset x and one line to b, the
\* start of the new offset y, and is at b
BevelledTo(id, x, y) ==
  /\ Gain(id) = Flush(x) \o <<LineTo(gsk_curve_get_start_point(y))>>
  /\ CurrentPoint(bufs[id]) = gsk_curve_get_start_point(y)

\* C19: under line_join miter or miter_clip, when the two join rays are
\* parallel (a reversal between consecutive segments), the join falls back
\* to a bevel: the joined sub-path receives a line to b and is at b after
\* the join.
C19_ParallelMiterFallsBackToBevel ==
  ParallelRays =>
    IF Turn.sign > 0
      THEN BevelledTo(sd.left, ev.pre.sd.l, NewLeft)
      ELSE BevelledTo(sd.right, ev.pre.sd.r, NewRight)

\* what the join does there: it makes no call, and the joined sub-path
\* stays at a, the end of the pending offset
ParallelMiterEmitsNothing ==
  ParallelRays =>
    IF Turn.sign > 0
      THEN /\ Gain(sd.left) = Flush(ev.pre.sd.l)
           /\ CurrentPoint(bufs[sd.left]) = gsk_curve_get_end_point(ev.pre.sd.l)
      ELSE /\ Gain(sd.right) = Flush(ev.pre.sd.r)
           /\ CurrentPoint(bufs[sd.right]) = gsk_curve_get_end_point(ev.pre.sd.r)

(***************************************************************************)
(* The first offsets in the outline of an open contour.                    *)
(***************************************************************************)
\* the outline cap_and_connect_contours builds of a contour with a pending
\* segment: the right sub-path and the pending r, the end cap, the left
\* sub-path and the pending l backwards, the start cap and the close; with
\* extras, the reverse of l0 before the start cap and r0 after it
OutlineWith(extras) ==
  ev.pre.bufs[ev.pre.sd.right]
    \o <<path_builder_add_curve(ev.pre.sd.r)>>
    \o add_line_cap(stroke, gsk_curve_get_end_point(ev.pre.sd.r),
                    gsk_curve_get_end_point(ev.pre.sd.l))
    \o path_builder_add_reverse_path(ev.pre.bufs[ev.pre.sd.left]
                                       \o <<path_builder_add_curve(ev.pre.sd.l)>>)
    \o (IF extras THEN <<path_builder_add_curve(gsk_curve_reverse(ev.pre.sd.l0))>> ELSE <<>>)
    \o add_line_cap(stroke, gsk_curve_get_start_point(ev.pre.sd.l0),
                    gsk_curve_get_start_point(ev.pre.sd.r0))
    \o (IF extras THEN <<path_builder_add_curve(ev.pre.sd.r0)>> ELSE <<>>)
    \o <<ClosePath>>

\* C20: at the finalisation of an open contour, r0 and the reverse of l0 are
\* additionally appended to the combined outline (the reverse of l0 before
\* the start cap, r0 after it) when is_first_curve is no longer set, that
\* is when the contour has two segments or more; the outline of a contour
\* of one segment gets the pending r and l only.
C20_FirstOffsetsAddedAfterFirstCurve ==
  (FoundPending /\ EndedOpenContour) =>
    /\ Len(Deposited) = 1
    /\ Deposited[1] = OutlineWith(~ev.pre.sd.is_first_curve)

\* C20 as stated: r0 and the reverse of l0 are additionally appended when
\* is_first_curve is still set, that is when the contour has one segment.
C20_FirstOffsetsAddedWhileFirstCurve ==
  (FoundPending /\ EndedOpenContour) =>
    /\ Len(Deposited) = 1
    /\ Deposited[1] = OutlineWith(ev.pre.sd.is_first_curve)

\* an open contour of two lines with a corner ended: the outline holds the
\* stored first offsets around the start cap
C20_Witness ==
  /\ FoundPending /\ EndedOpenContour /\ ~ev.pre.sd.is_first_curve
  /\ Len(ev.pre.walk.segs) = 2 /\ ~ev.pre.walk.straight
  /\ Deposited[1] = OutlineWith(TRUE)
  /\ Deposited[1][Len(Deposited[1]) - 1] = path_builder_add_curve(ev.pre.sd.r0)

(***************************************************************************)
(* The order of the outline of an open contour.                            *)
(***************************************************************************)
\* the indexes of the calls of path that draw, in their order
RECURSIVE DrawIndexes(_, _)
DrawIndexes(path, i) ==
  IF i > Len(path) THEN <<>>
  ELSE IF path[i].op \in {"move_to", "close"} THEN DrawIndexes(path, i + 1)
  ELSE <<i>> \o DrawIndexes(path, i + 1)

\* the call o draws the call p of a path backwards, to the point p started at
DrawsBackwards(o, p, from) ==
  /\ o.op = p.op /\ o.pts[Len(o.pts)] = from
  /\ o.op = "curve_to" => o.pts[1] = p.pts[2] /\ o.pts[2] = p.pts[1]
  /\ o.op = "conic_to" => o.pts[1] = p.pts[1]

\* the calls lo + 1 .. lo + n of outline draw the n drawing calls of path
\* from the last to the first, each backwards
RunsBackwards(outline, lo, path, idx) ==
  /\ Len(outline) >= lo + Len(idx)
  /\ \A i \in 1..Len(idx) :
       DrawsBackwards(outline[lo + i], path[idx[Len(idx) + 1 - i]],
                      CallStart(path, idx[Len(idx) + 1 - i]))

\* the outline is right, the end cap, left backwards, at most one more
\* call, the start cap, at most one more call, and the close
InCapOrder(outline, right, endCap, left, startCap) ==
  LET idx == DrawIndexes(left, 1)
      a == Len(right)
      b == a + Len(endCap)
      c == b + Len(idx)
  IN  /\ Len(outline) > c + Len(startCap)
      /\ SubSeq(outline, 1, a) = right
      /\ SubSeq(outline, a + 1, b) = endCap
      /\ RunsBackwards(outline, b, left, idx)
      /\ \E k \in {c, c + 1} :
           /\ SubSeq(outline, k + 1, k + Len(startCap)) = startCap
           /\ Len(outline) \in {k + Len(startCap) + 1, k + Len(startCap) + 2}
           /\ (k = c + 1) = (Len(outline) = k + Len(startCap) + 2)
      /\ outline[Len(outline)] = ClosePath
      /\ \A i \in 1..(Len(outline) - 1) : outline[i] # ClosePath

\* C21: the single outline of an open contour with at least one segment is
\* assembled in this order: the right sub-path and the final pending r, the
\* end cap from the end of r to the end of l, the left sub-path with the
\* final pending l backwards, the start cap from the start of l0 to the
\* start of r0, and the close; the end cap comes before the reversed left
\* geometry and the start cap after it.
C21_OutlineInCapOrder ==
  (FoundPending /\ EndedOpenContour) =>
    /\ Len(Deposited) = 1
    /\ InCapOrder(Deposited[1],
                  ev.pre.bufs[ev.pre.sd.right] \o <<path_builder_add_curve(ev.pre.sd.r)>>,
                  add_line_cap(stroke, gsk_curve_get_end_point(ev.pre.sd.r),
                               gsk_curve_get_end_point(ev.pre.sd.l)),
                  ev.pre.bufs[ev.pre.sd.left] \o <<path_builder_add_curve(ev.pre.sd.l)>>,
                  add_line_cap(stroke, gsk_curve_get_start_point(ev.pre.sd.l0),
                               gsk_curve_get_start_point(ev.pre.sd.r0)))

\* an open contour of a line and a curve under square caps ended
C21_Witness ==
  /\ FoundPending /\ EndedOpenContour /\ stroke.line_cap = "square"
  /\ ev.pre.walk.curvy /\ ev.pre.walk.segs[1].op = "line"
  /\ Len(DrawIndexes(ev.pre.bufs[ev.pre.sd.left], 1)) >= 2
  /\ Len(Deposited) = 1

(***************************************************************************)
(* The CLOSE event.                                                        *)
(***************************************************************************)
\* the stroker after close_contours, run on the contour the CLOSE found and,
\* if withLine, on the closing line before
ClosedWith(withLine) ==
  close_contours(IF withLine THEN add_curve(Found, stroke, NewSegment) ELSE Found, stroke)

\* C22: on a CLOSE with has_current_point set the closing line goes through
\* add_curve if and only if the two points of the event differ (on the grid
\* two points within 10^-3 are equal), and close_contours runs then.  After
\* the CLOSE has_current_point and has_current_curve are both clear, so the
\* end of the stream, or a MOVE, deposits nothing more for the closed
\* contour, and a CLOSE that finds has_current_point clear deposits nothing.
C22_CloseSubmitsLineThenCloses ==
  /\ ev.op = "CLOSE" =>
       /\ ev.pre.sd.has_current_point
       /\ builder = ClosedWith(ev.pts[1] # ev.pts[2]).builder
       /\ bufs = ClosedWith(ev.pts[1] # ev.pts[2]).bufs
       /\ ~sd.has_current_point /\ ~sd.has_current_curve
  /\ (ev.op = "END" /\ ev.pre.walk.phase = "closed") => builder = ev.pre.builder
  /\ walk.phase = "closed" =>
       /\ \A p \in StartPoints : stroke_op_move(M, stroke, p).builder = builder
       /\ add_stroke_end(M, stroke).builder = builder
       /\ stroke_op_close(M, stroke, <<walk.cur, walk.start>>).builder = builder
       /\ stroke_op_close(M, stroke, <<walk.cur, walk.start>>).bufs = bufs

\* the stream ended after the CLOSE of a contour of two lines, which got a
\* closing line, and the two outlines are all the builder holds
C22_Witness ==
  /\ ev.op = "END" /\ ev.pre.walk.phase = "closed"
  /\ Len(walk.segs) = 3 /\ walk.segs[3] = LineCurve(walk.segs[2].pts[2], walk.start)
  /\ Len(builder) = 2 /\ ~sd.has_current_point

\* a CLOSE whose two points are equal, at the end of a contour with segments
C22_WitnessNoLine ==
  /\ ev.op = "CLOSE" /\ ev.pts[1] = ev.pts[2] /\ ev.pre.sd.has_current_curve

(***************************************************************************)
(* The join of a closed contour with its first segment.                    *)
(***************************************************************************)
\* the last event was the CLOSE of a contour with a segment or more
ClosedWithSegments == ev.op = "CLOSE" /\ walk.segs # <<>>

\* after add_segments ran once on m for the first segment c0 and its stored
\* offsets, the outline of the sub-path id is what the sub-path holds then,
\* the curve then pending on its side, and the close
WrappedOnce(m, st) ==
  LET Outlines(j) ==
        /\ Len(Deposited) = 2
        /\ Deposited[1] = j.bufs[j.sd.right]
                            \o <<path_builder_add_curve(j.sd.r), ClosePath>>
        /\ Deposited[2] = j.bufs[j.sd.left]
                            \o <<path_builder_add_curve(j.sd.l), ClosePath>>
        /\ sd.r = j.sd.r /\ sd.l = j.sd.l /\ sd.c = m.sd.c0
  IN  Outlines(add_segments(WithParams(m, m.sd.r0, m.sd.l0, TRUE), st, m.sd.c0))

\* last is first, the stored offset of the first segment, or the part
\* [t2, 1] the intersection with the offset before it left of it; first
\* starts where the offset of the first segment at distance d starts
FirstOffsetLast(m, last, first, before, d) ==
  LET Kept(hit) ==
        /\ \/ last = first
           \/ hit.n > 0 /\ last = gsk_curve_split(first, hit.t2)[2]
        /\ gsk_curve_get_end_point(last) = gsk_curve_get_end_point(first)
        /\ gsk_curve_get_start_point(first)
             = gsk_curve_get_start_point(gsk_curve_offset(m.sd.c0, d))
  IN  Kept(gsk_curve_intersect(before, first))

\* C23: at the CLOSE of a contour with at least one segment close_contours
\* makes the join between the last segment and the first segment c0 once,
\* by add_segments (c0, r0, l0) with the turn rule of every corner, and the
\* stored offsets r0 / l0 of the first segment (cut at their start by that
\* join where it intersects, at their end by the join after the first
\* segment) are the last geometry the right / left sub-path gets before the
\* close.
C23_ClosingJoinOnceThenFirstOffsets ==
  ClosedWithSegments =>
    /\ WrappedOnce(AfterClosingLine, stroke)
    /\ FirstOffsetLast(AfterClosingLine, sd.r, AfterClosingLine.sd.r0,
                       AfterClosingLine.sd.r, HalfWidth)
    /\ FirstOffsetLast(AfterClosingLine, sd.l, AfterClosingLine.sd.l0,
                       AfterClosingLine.sd.l, -HalfWidth)
    /\ Deposited[1][Len(Deposited[1]) - 1] = path_builder_add_curve(sd.r)
    /\ Deposited[2][Len(Deposited[2]) - 1] = path_builder_add_curve(sd.l)

\* a closed contour of three lines under round joins whose closing join cut
\* the stored first offset of one side at its start
C23_Witness ==
  /\ ClosedWithSegments /\ Len(walk.segs) = 3 /\ stroke.line_join = "round"
  /\ \/ sd.r # AfterClosingLine.sd.r0
     \/ sd.l # AfterClosingLine.sd.l0
  /\ gsk_curve_get_end_point(sd.r) = gsk_curve_get_end_point(AfterClosingLine.sd.r0)

(***************************************************************************)
(* The pending offsets between two events.                                 *)
(***************************************************************************)
\* the point p displaced by d along the normal of the tangent t
Displaced(p, t, d) == scale_point(p, <<-t[2], t[1]>>, d)

\* a contour is in progress and has a pending segment
PendingSegment == walk.phase = "open" /\ sd.has_current_curve

\* the offset x starts and ends at the end points of the pending segment
\* displaced by d
EndsDisplaced(x, d) ==
  /\ gsk_curve_get_start_point(x)
       = Displaced(gsk_curve_get_start_point(sd.c), gsk_curve_get_start_tangent(sd.c), d)
  /\ gsk_curve_get_end_point(x)
       = Displaced(gsk_curve_get_end_point(sd.c), gsk_curve_get_end_tangent(sd.c), d)
  /\ x = gsk_curve_offset(sd.c, d)

\* the offset x is what an intersection left of the offset of the pending
\* segment at the distance d: a line that starts on it, away from its
\* start, and ends where it ends
CutAtItsStart(x, d) ==
  /\ x.op = "line" /\ sd.c.op = "line"
  /\ OnSegment(gsk_curve_get_start_point(x), gsk_curve_offset(sd.c, d))
  /\ gsk_curve_get_start_point(x)
       # Displaced(gsk_curve_get_start_point(sd.c), gsk_curve_get_start_tangent(sd.c), d)
  /\ gsk_curve_get_end_point(x)
       = Displaced(gsk_curve_get_end_point(sd.c), gsk_curve_get_end_tangent(sd.c), d)

\* the pending offset of the right side was cut by the last event
RightCutNow == SharpTurn /\ Turn.sign > 0 /\ RightHit.n > 0 /\ RightHit.t2[1] # 0

LeftCutNow == SharpTurn /\ Turn.sign <= 0 /\ LeftHit.n > 0 /\ LeftHit.t2[1] # 0

\* C24: between two events the pending r and l end at the end point of the
\* pending segment c displaced by + w/2 and - w/2 perpendicular to its end
\* tangent.  They are the offsets of c at these distances, and start at its
\* displaced start point, unless c arrived at a sharp turn whose
\* intersection hit: then the offset of the intersected side starts at the
\* intersection point, cut from its start, and the other one is whole.
C24_PendingOffsetsUpToCut ==
  PendingSegment =>
    /\ IF RightCutNow THEN CutAtItsStart(sd.r, HalfWidth) ELSE EndsDisplaced(sd.r, HalfWidth)
    /\ IF LeftCutNow THEN CutAtItsStart(sd.l, -HalfWidth) ELSE EndsDisplaced(sd.l, -HalfWidth)
    /\ ~(RightCutNow /\ LeftCutNow)

\* C24 as stated: between two events the pending l and r are the offsets of
\* the pending c at - w/2 and + w/2, and start and end at the end points of
\* c displaced by w/2 perpendicular to its tangents.
C24_PendingOffsetsWhole ==
  PendingSegment => EndsDisplaced(sd.r, HalfWidth) /\ EndsDisplaced(sd.l, -HalfWidth)

\* a line arrived at a turn with angle < 0 whose left pair met: the pending
\* l starts at the intersection point, the pending r is whole
C24_Witness ==
  /\ PendingSegment /\ LeftCutNow
  /\ CutAtItsStart(sd.l, -HalfWidth) /\ EndsDisplaced(sd.r, HalfWidth)

\* C25: between the events of a stream, has_current_curve implies
\* has_current_point, and the left and right builders exist exactly when
\* has_current_point is set; after every MOVE has_current_point is set,
\* has_current_curve is clear and left and right are two distinct live
\* builders that received no call yet, whatever the state before.
C25_FlagsAndBuffersAgree ==
  /\ walk.phase # "done" =>
       /\ sd.has_current_curve => sd.has_current_point
       /\ sd.has_current_point <=> (sd.left # NULL /\ sd.right # NULL)
       /\ sd.has_current_point <=> (sd.left # NULL \/ sd.right # NULL)
       /\ sd.has_current_point =>
            /\ sd.left # sd.right
            /\ {sd.left, sd.right} \subseteq DOMAIN bufs
  /\ ev.op = "MOVE" =>
       /\ sd.has_current_point /\ ~sd.has_current_curve
       /\ sd.left # NULL /\ sd.right # NULL /\ sd.left # sd.right
       /\ {sd.left, sd.right} \subseteq DOMAIN bufs
       /\ bufs[sd.right] = <<>> /\ bufs[sd.left] = <<>>

\* a MOVE that found a contour in progress with a pending segment
C25_Witness ==
  /\ ev.op = "MOVE"
  /\ ev.pre.sd.has_current_point /\ ev.pre.sd.has_current_curve
  /\ ev.pre.bufs[ev.pre.sd.right] # <<>>
  /\ sd.has_current_point /\ ~sd.has_current_curve
  /\ bufs[sd.right] = <<>> /\ bufs[sd.left] = <<>>

(***************************************************************************)
(* angle_between step by step.  The value of atan2 is in (-pi, pi]; the    *)
(* raw difference is the principal angle p of the pair, the angle in       *)
(* (-pi, pi] with the pair's sine and cosine, plus RawTurns whole turns;   *)
(* the two tests subtract AngleWraps whole turns.                          *)
(***************************************************************************)
\* 1 when atan2 (v) is in (0, pi], 0 when it is in (-pi, 0]
Atan2Half(v) == IF v[2] > 0 \/ (v[2] = 0 /\ v[1] < 0) THEN 1 ELSE 0

\* atan2 (a.y, a.x) > atan2 (b.y, b.x)
Atan2Greater(a, b) ==
  IF Atan2Half(a) # Atan2Half(b) THEN Atan2Half(a) > Atan2Half(b)
  ELSE VCross(b, a) > 0

\* atan2 (t2) - atan2 (t1) = p + 2 pi RawTurns
RawTurns(t1, t2) ==
  LET Of(cr, dt, up) ==
        IF cr > 0 THEN (IF up THEN 0 ELSE -1)
        ELSE IF cr < 0 THEN (IF up THEN 1 ELSE 0)
        ELSE IF dt >= 0 THEN 0
        ELSE IF up THEN 0 ELSE -1
  IN  Of(VCross(t1, t2), VDot(t1, t2), Atan2Greater(t2, t1))

\* the whole turns the tests angle > M_PI and angle < -M_PI take off the
\* float: a raw difference of pi is stored as the float above M_PI and a
\* raw difference of -pi as the float below -M_PI
AngleWraps(t1, t2) ==
  LET Of(cr, dt, up) ==
        IF cr > 0 THEN (IF up THEN 0 ELSE -1)
        ELSE IF cr < 0 THEN (IF up THEN 1 ELSE 0)
        ELSE IF dt >= 0 THEN 0
        ELSE IF up THEN 1 ELSE -1
  IN  Of(VCross(t1, t2), VDot(t1, t2), Atan2Greater(t2, t1))

\* the whole turns between the returned value and the principal angle
AngleTurns(t1, t2) == RawTurns(t1, t2) - AngleWraps(t1, t2)

\* the unit tangents the turn classifier is checked on
Tangents == Dirs \cup { <<-d[1], -d[2]>> : d \in Dirs }

OppositeTangents(t1, t2) == VCross(t1, t2) = 0 /\ VDot(t1, t2) < 0

\* the returned value is strictly between -pi and pi: the principal angle
\* when that is below pi, and at a reversal the float just above -pi (one
\* turn below pi) or the float just below pi
AngleInRange(t1, t2) ==
  IF OppositeTangents(t1, t2) THEN AngleTurns(t1, t2) \in {-1, 0}
  ELSE AngleTurns(t1, t2) = 0

\* the sign the classifier sees is the sign of that value
AngleSignAgrees(t1, t2) ==
  angle_between(t1, t2).sign =
    IF OppositeTangents(t1, t2)
    THEN (IF AngleTurns(t1, t2) = 0 THEN 1 ELSE -1)
    ELSE Sgn(VCross(t1, t2))

ReversalAtCorner == LineAtCorner /\ Reverses(ev.pre.sd.c, NewSegment)

\* C26: for every pair of unit tangents angle_between returns a value
\* strictly between -pi and pi, so neither -pi nor pi is returned; a
\* reversal is returned as a value just above -pi when atan2 of the new
\* tangent is greater than atan2 of the incoming one and as a value just
\* below pi otherwise, so that its class depends on the direction of the
\* incoming tangent, and the turn at every corner of the walk has that sign.
C26_AngleStrictlyInsideReversalBySide ==
  /\ \A t1, t2 \in Tangents :
       /\ AngleInRange(t1, t2)
       /\ AngleSignAgrees(t1, t2)
       /\ OppositeTangents(t1, t2) =>
            /\ angle_between(t1, t2).sign = (IF Atan2Greater(t2, t1) THEN -1 ELSE 1)
            /\ angle_between(t2, t1).sign = -angle_between(t1, t2).sign
  /\ LineAtCorner =>
       /\ AngleInRange(gsk_curve_get_end_tangent(ev.pre.sd.c),
                       gsk_curve_get_start_tangent(NewSegment))
       /\ AngleSignAgrees(gsk_curve_get_end_tangent(ev.pre.sd.c),
                          gsk_curve_get_start_tangent(NewSegment))
       /\ Turn.sign # 0 <=> ~(Turn.sin = 0 /\ Turn.cos > 0)

\* C26 as stated: the value is in (-pi, pi], where the only angle of a
\* reversal is pi, so that every reversal is classified as a positive turn
C26_ReversalAlwaysPositive ==
  ReversalAtCorner => Turn.sign > 0

\* a reversal from the direction (1, 0) to (-1, 0), returned just above -pi
C26_Witness ==
  /\ ReversalAtCorner
  /\ gsk_curve_get_end_tangent(ev.pre.sd.c) = <<1, 0>>
  /\ gsk_curve_get_start_tangent(NewSegment) = <<-1, 0>>
  /\ AngleWraps(<<1, 0>>, <<-1, 0>>) = 1
  /\ AngleTurns(<<1, 0>>, <<-1, 0>>) = -1
  /\ Turn.sign < 0

\* the reversal the other way round, returned just below pi
C26_WitnessPositive ==
  /\ ReversalAtCorner
  /\ gsk_curve_get_end_tangent(ev.pre.sd.c) = <<-1, 0>>
  /\ AngleWraps(<<-1, 0>>, <<1, 0>>) = -1
  /\ AngleTurns(<<-1, 0>>, <<1, 0>>) = 0
  /\ Turn.sign > 0

RECURSIVE Pow2(_)
Pow2(n) == IF n = 0 THEN 1 ELSE 2 * Pow2(n - 1)

\* the calls of add_curve a piece accepted at its level stands for at most:
\* the leaves of the binary recursion below it
RECURSIVE PiecesWeight(_, _)
PiecesWeight(ps, i) ==
  IF i > Len(ps) THEN 0 ELSE Pow2(ps[i].level) + PiecesWeight(ps, i + 1)

\* the sub-curves the first call of subdivide_and_add_curve recurses on
FirstLevelParts(curve) ==
  IF cubic_curvature_points(curve, SubGrid) = <<>> THEN 2
  ELSE Len(cubic_curvature_points(curve, SubGrid)) + 1

\* C27: the subdivision ends for every cubic and every conic with every
\* piece accepted at a level from 0 to 7, so the level never goes below 0
\* and the depth is at most 8; add_curve is called at most 4 * 2^7 = 512
\* times for a cubic and at most 2^8 = 256 times for a conic, the pieces of
\* a conic weighing 2^8 leaves and those of a cubic 2^7 leaves for each of
\* the two to four sub-curves of its first call.
C27_SubdivisionBounded ==
  sub.phase = "done" =>
    /\ sub.pieces # <<>>
    /\ \A i \in 1..Len(sub.pieces) :
         sub.pieces[i].level \in 0..(MAX_SUBDIVISION - 1)
    /\ sub.curve.op = "curve" =>
         /\ Len(sub.pieces) <= 4 * Pow2(MAX_SUBDIVISION - 1)
         /\ FirstLevelParts(sub.curve) \in 2..4
         /\ PiecesWeight(sub.pieces, 1)
              = FirstLevelParts(sub.curve) * Pow2(MAX_SUBDIVISION - 1)
    /\ sub.curve.op = "conic" =>
         /\ Len(sub.pieces) <= Pow2(MAX_SUBDIVISION)
         /\ PiecesWeight(sub.pieces, 1) = Pow2(MAX_SUBDIVISION)

\* a cubic with three curvature points: four sub-curves at level 7, the
\* whole weight of 512 leaves
C27_Witness ==
  /\ sub.phase = "done" /\ sub.curve.op = "curve"
  /\ FirstLevelParts(sub.curve) = 4
  /\ PiecesWeight(sub.pieces, 1) = 512
  /\ Len(sub.pieces) > 4

\* a conic and a cubic halved down to level 0
C27_WitnessLevelZero ==
  /\ sub.phase = "done"
  /\ \E i \in 1..Len(sub.pieces) : sub.pieces[i].level = 0

(***************************************************************************)
(* The pieces put together again.  Two pieces that follow each other at    *)
(* the same level are the halves of the curve one level up when the curve  *)
(* rebuilt from their outer control points splits at 1/2 into exactly the  *)
(* two; a piece accepted at level k covers 2^(k-7) of a first-level        *)
(* sub-curve, so folding the pieces in the order of the calls leaves the   *)
(* first-level sub-curves exactly when the parameter intervals follow each *)
(* other without gap and overlap.                                          *)
(***************************************************************************)
NoCurve == [op |-> "none", pts |-> <<>>, w |-> 0]

\* the point q with p1 = p0 + t (q - p0)
Unlerp(p0, p1, t) ==
  <<p0[1] + Div((p1[1] - p0[1]) * t[2], t[1]), p0[2] + Div((p1[2] - p0[2]) * t[2], t[1])>>

\* the curve whose parts before and after the parameter t are c1 and c2
Unsplit(c1, c2, t) ==
  LET Whole(parent) == IF gsk_curve_split(parent, t) = <<c1, c2>> THEN parent ELSE NoCurve
      n == Len(c2.pts)
  IN  IF c1.op # c2.op \/ c1.op \notin {"curve", "conic"} THEN NoCurve
      ELSE IF gsk_curve_get_end_point(c1) # gsk_curve_get_start_point(c2) THEN NoCurve
      ELSE IF c1.op = "curve"
        THEN Whole(CubicCurve(c1.pts[1], Unlerp(c1.pts[1], c1.pts[2], t),
                              Unlerp(c2.pts[4], c2.pts[3], <<t[2] - t[1], t[2]>>),
                              c2.pts[4]))
        ELSE Whole(ConicCurve(c1.pts[1], Unlerp(c1.pts[1], c1.pts[2], t), c2.pts[3], c1.w))

\* two pieces of one level on top of the stack become their parent
RECURSIVE ReducePieces(_, _)
ReducePieces(st, top) ==
  LET n == Len(st)
  IN  IF n >= 2 /\ st[n].level = st[n - 1].level /\ st[n].level < top
        THEN ReducePieces(SubSeq(st, 1, n - 2)
                            \o <<[curve |-> Unsplit(st[n - 1].curve, st[n].curve, <<1, 2>>),
                                  level |-> st[n].level + 1]>>, top)
        ELSE st

RECURSIVE FoldPieces(_, _, _, _)
FoldPieces(ps, i, st, top) ==
  IF i > Len(ps) THEN st
  ELSE FoldPieces(ps, i + 1, ReducePieces(Append(st, ps[i]), top), top)

\* the parameters of the first call of subdivide_and_add_curve, sorted
FirstLevelParams(curve) ==
  SortParams(<<<<0, 1>>, <<1, 1>>>> \o cubic_curvature_points(curve, SubGrid))

\* every piece starts where the piece before it ended
PiecesChained(curve, ps) ==
  /\ gsk_curve_get_start_point(ps[1].curve) = gsk_curve_get_start_point(curve)
  /\ gsk_curve_get_end_point(ps[Len(ps)].curve) = gsk_curve_get_end_point(curve)
  /\ \A i \in 1..(Len(ps) - 1) :
       gsk_curve_get_end_point(ps[i].curve) = gsk_curve_get_start_point(ps[i + 1].curve)

\* the first-level sub-curves of a cubic are the parts of the curve between
\* its sorted parameters, which increase strictly from 0 to 1
CubicPartsInOrder(curve, parts) ==
  LET t == FirstLevelParams(curve)
  IN  IF Len(t) = 2
        THEN /\ Len(parts) = 2
             /\ Unsplit(parts[1].curve, parts[2].curve, <<1, 2>>) = curve
        ELSE /\ Len(parts) = Len(t) - 1
             /\ t[1] = <<0, 1>> /\ t[Len(t)] = <<1, 1>>
             /\ \A i \in 1..(Len(t) - 1) :
                  /\ FracLess(t[i], t[i + 1])
                  /\ parts[i].level = MAX_SUBDIVISION - 1
                  /\ parts[i].curve = gsk_curve_segment(curve, t[i], t[i + 1])

\* C28: the pieces handed to add_curve for one curve come in increasing
\* parameter order and their parameter intervals follow each other from 0
\* to 1 without gap, overlap or empty interval: each piece starts where
\* the one before ended, and put together again pairwise, level by level,
\* the pieces give back the first-level sub-curves and the curve itself.
C28_PiecesPartitionCurve ==
  sub.phase = "done" =>
    /\ sub.pieces # <<>>
    /\ PiecesChained(sub.curve, sub.pieces)
    /\ sub.curve.op = "conic" =>
         FoldPieces(sub.pieces, 1, <<>>, MAX_SUBDIVISION)
           = <<[curve |-> sub.curve, level |-> MAX_SUBDIVISION]>>
    /\ sub.curve.op = "curve" =>
         CubicPartsInOrder(sub.curve,
                           FoldPieces(sub.pieces, 1, <<>>, MAX_SUBDIVISION - 1))

\* a cubic cut at three curvature points whose parts were halved further
C28_Witness ==
  /\ sub.phase = "done" /\ sub.curve.op = "curve"
  /\ Len(FirstLevelParams(sub.curve)) = 5
  /\ Len(sub.pieces) >= 8
  /\ Len(FoldPieces(sub.pieces, 1, <<>>, MAX_SUBDIVISION - 1)) = 4
  /\ PiecesChained(sub.curve, sub.pieces)

\* a conic halved down to level 0 and put together again
C28_WitnessConic ==
  /\ sub.phase = "done" /\ sub.curve.op = "conic"
  /\ \E i \in 1..Len(sub.pieces) : sub.pieces[i].level = 0
  /\ FoldPieces(sub.pieces, 1, <<>>, MAX_SUBDIVISION)
       = <<[curve |-> sub.curve, level |-> MAX_SUBDIVISION]>>

\* the sub-curves the first call recursed on at level 7, put together from
\* the pieces
FirstLevelPieces == FoldPieces(sub.pieces, 1, <<>>, MAX_SUBDIVISION - 1)

AtLevelSeven(c) == [curve |-> c, level |-> MAX_SUBDIVISION - 1]

\* the set of the parameters in a sequence
ParamSet(t) == { t[i] : i \in 1..Len(t) }

\* C29: at the first call for a cubic, when curvature parameters are found
\* in (0,1), the sub-curves recursed on at level 7 are exactly the parts
\* between consecutive elements of the sorted set of 0, 1 and these
\* parameters; when none is found, the first call splits the cubic at 0.5
\* as the calls at the lower levels do and recurses on the two halves.
C29_FirstCallCutsAtParamsOrHalves ==
  (sub.phase = "done" /\ sub.curve.op = "curve") =>
    IF cubic_curvature_points(sub.curve, SubGrid) = <<>>
      THEN FirstLevelPieces
             = <<AtLevelSeven(gsk_curve_split(sub.curve, <<1, 2>>)[1]),
                 AtLevelSeven(gsk_curve_split(sub.curve, <<1, 2>>)[2])>>
      ELSE /\ ParamSet(FirstLevelParams(sub.curve))
                = {<<0, 1>>, <<1, 1>>}
                    \cup ParamSet(cubic_curvature_points(sub.curve, SubGrid))
           /\ \A t \in ParamSet(cubic_curvature_points(sub.curve, SubGrid)) : InOpenUnit(t)
           /\ Len(FirstLevelPieces) = Len(FirstLevelParams(sub.curve)) - 1
           /\ \A i \in 1..Len(FirstLevelPieces) :
                /\ FracLess(FirstLevelParams(sub.curve)[i], FirstLevelParams(sub.curve)[i + 1])
                /\ FirstLevelPieces[i]
                     = AtLevelSeven(gsk_curve_segment(sub.curve,
                                                      FirstLevelParams(sub.curve)[i],
                                                      FirstLevelParams(sub.curve)[i + 1]))

\* C29 as stated: for every cubic the sub-curves recursed on at level 7 are
\* the parts between consecutive elements of the sorted parameters, the
\* whole cubic when no curvature parameter is found, and no cubic is split
\* at 0.5 by the first call.
C29_FirstCallCutsAtParamsOnly ==
  (sub.phase = "done" /\ sub.curve.op = "curve") =>
    /\ Len(FirstLevelPieces) = Len(FirstLevelParams(sub.curve)) - 1
    /\ \A i \in 1..Len(FirstLevelPieces) :
         FirstLevelPieces[i].curve
           = gsk_curve_segment(sub.curve, FirstLevelParams(sub.curve)[i],
                               FirstLevelParams(sub.curve)[i + 1])

\* a cubic with three curvature parameters, cut into four at the first call
C29_Witness ==
  /\ sub.phase = "done" /\ sub.curve.op = "curve"
  /\ Len(cubic_curvature_points(sub.curve, SubGrid)) = 3
  /\ Len(FirstLevelPieces) = 4
  /\ FirstLevelPieces[2].curve
       = gsk_curve_segment(sub.curve, FirstLevelParams(sub.curve)[2],
                           FirstLevelParams(sub.curve)[3])
  /\ \E i \in 1..Len(sub.pieces) : sub.pieces[i].level < MAX_SUBDIVISION - 1

\* a cubic without curvature parameters, halved by the first call
C29_WitnessHalved ==
  /\ sub.phase = "done" /\ sub.curve.op = "curve"
  /\ cubic_curvature_points(sub.curve, SubGrid) = <<>>
  /\ Len(FirstLevelPieces) = 2
  /\ FirstLevelPieces[1].curve = gsk_curve_split(sub.curve, <<1, 2>>)[1]

\* the paths the last event handed to the final builder
NewPaths == SubSeq(builder, Len(ev.pre.builder) + 1, Len(builder))

\* a whole sub-path: all that the right or the left builder had received
\* when the event began, continued up to a close
WholeSubPath(path) ==
  /\ Closed(path)
  /\ \E id \in {ev.pre.sd.right, ev.pre.sd.left} \cap DOMAIN ev.pre.bufs :
       IsPrefix(ev.pre.bufs[id], path)

\* C30: a LINE, CURVE or CONIC event leaves the final builder as it found
\* it; the builder only grows, by whole sub-paths, and only during a MOVE
\* that found a contour in progress (one path), during a CLOSE (the right
\* and the left path), or at the end of a stream whose last contour is
\* open (one path).
C30_SegmentsLeaveBuilderAlone ==
  /\ ev.op \in {"LINE", "CURVE", "CONIC"} => builder = ev.pre.builder
  /\ IsPrefix(ev.pre.builder, builder)
  /\ \A i \in 1..Len(NewPaths) : WholeSubPath(NewPaths[i])
  /\ ev.op = "MOVE" =>
       Len(NewPaths) = (IF ev.pre.sd.has_current_point THEN 1 ELSE 0)
  /\ ev.op = "END" =>
       Len(NewPaths) = (IF ev.pre.sd.has_current_point THEN 1 ELSE 0)
  /\ ev.op = "CLOSE" => Len(NewPaths) = 2
  /\ builder # ev.pre.builder => ev.op \in {"MOVE", "CLOSE", "END"}

\* a cubic event, handed on in several pieces after a contour was deposited:
\* the sub-path buffers grew and the final builder is as it was
C30_Witness ==
  /\ ev.op = "CURVE"
  /\ Len(walk.segs) >= 2
  /\ ev.pre.builder # <<>>
  /\ builder = ev.pre.builder
  /\ bufs # ev.pre.bufs

\* a line event that ran add_segments and left the builder alone
C30_WitnessLine ==
  /\ LineAtCorner /\ SharpTurn
  /\ bufs # ev.pre.bufs
  /\ builder = ev.pre.builder

(***************************************************************************)
(* A contour on its own: the events of the contour in progress handed to   *)
(* a stroker that memset just cleared, with the same stroke parameters.    *)
(***************************************************************************)
FreshStroker == [sd |-> StrokeData0, bufs |-> EmptyBufs, builder |-> <<>>]

RECURSIVE ReplaySegments(_, _, _)
ReplaySegments(m, segs, i) ==
  IF i > Len(segs) THEN m
  ELSE ReplaySegments(add_curve(m, stroke, segs[i]), segs, i + 1)

\* the stroker after the MOVE and the segments of the contour w is in
ContourAlone(w) ==
  ReplaySegments(stroke_op_move(FreshStroker, stroke, w.start), w.segs, 1)

\* the stroker holds for its contour what the stroker a holds for the same
\* contour on its own
SameContourState(a) ==
  /\ bufs[sd.right] = a.bufs[a.sd.right]
  /\ bufs[sd.left] = a.bufs[a.sd.left]
  /\ sd.has_current_point = a.sd.has_current_point
  /\ sd.has_current_curve = a.sd.has_current_curve
  /\ sd.r0 = a.sd.r0 /\ sd.l0 = a.sd.l0
  /\ sd.has_current_curve =>
       /\ sd.c = a.sd.c /\ sd.l = a.sd.l /\ sd.r = a.sd.r
       /\ sd.c0 = a.sd.c0 /\ sd.is_first_curve = a.sd.is_first_curve

\* the values the stroker found differ from those memset leaves
LeftOvers(s) ==
  \/ s.c # ZeroCurve \/ s.l # ZeroCurve \/ s.r # ZeroCurve
  \/ s.c0 # ZeroCurve \/ s.is_first_curve

\* C31: what the stroker holds for the contour in progress and the
\* sub-paths it deposits for a contour are those of a cleared stroker that
\* is handed the MOVE and the segments of that contour alone with the same
\* stroke parameters, whatever c, l, r, c0, l0, r0 and is_first_curve an
\* earlier contour of the stream left behind.
C31_ContourOutputIsItsOwn ==
  /\ walk.phase = "open" => SameContourState(ContourAlone(walk))
  /\ (ev.op \in {"MOVE", "END"} /\ ev.pre.walk.phase = "open") =>
       NewPaths = cap_and_connect_contours(ContourAlone(ev.pre.walk), stroke).builder
  /\ ev.op = "CLOSE" =>
       NewPaths = stroke_op_close(ContourAlone(ev.pre.walk), stroke, ev.pts).builder

\* the end of a stream of two contours: the first left c, l, r, c0 and a
\* clear is_first_curve behind, the second has one segment
C31_Witness ==
  /\ ev.op = "END" /\ ev.pre.walk.phase = "open"
  /\ walk.nmove = 2 /\ walk.nseg = 3 /\ Len(walk.segs) = 1
  /\ Len(builder) = 2 /\ Len(NewPaths) = 1
  /\ ev.pre.sd.is_first_curve
  /\ NewPaths = cap_and_connect_contours(ContourAlone(ev.pre.walk), stroke).builder

\* a second contour without segments, begun on the values of the first
C31_WitnessLoneMove ==
  /\ ev.op = "MOVE" /\ ev.pre.sd.has_current_curve
  /\ LeftOvers(sd) /\ ~sd.is_first_curve
  /\ ev.pre.walk.start # walk.start
  /\ SameContourState(ContourAlone(walk))

\* the step delivers a callback of load id, whose cancellable was cancelled
StaleCallback(id) ==
  /\ id \in ottie.cancelled
  /\ ottie.pending[id] # "none"
  /\ ottie'.pending[id] # ottie.pending[id]

\* C32: a callback of a load that a later ottie_creation_load_file (or the
\* dispose) cancelled, delivered at any time before, between or after the
\* callbacks of the newer load, leaves the frame rate, the layer list and
\* the cancellable of the creation as they are, so it neither writes into
\* the creation nor ends the loading of the newer load; it only retires
\* the cancelled load.
C32_StaleCallbacksWriteNothing ==
  [][\A id \in Loads :
       StaleCallback(id) =>
         /\ ottie'.frame_rate = ottie.frame_rate
         /\ ottie'.layers = ottie.layers
         /\ ottie'.cancellable = ottie.cancellable
         /\ ottie'.cancelled = ottie.cancelled
         /\ ottie'.ended = ottie.ended
         /\ ottie'.pending[id] = "none"
         /\ \A other \in Loads \ {id} : ottie'.pending[other] = ottie.pending[other]]_vars

\* the callback of the cancelled first load was delivered after the second
\* load's file was opened, and the second load is still in progress
C32_Witness ==
  /\ 1 \in ottie.cancelled /\ ottie.pending[1] = "none" /\ 1 \notin ottie.ended
  /\ ottie.cancellable = 2 /\ ottie.pending[2] = "parse"
  /\ ottie.layers = <<>>

\* the second load finished with its document while the callback of the
\* cancelled first load is still to be delivered
C32_WitnessLate ==
  /\ 1 \in ottie.cancelled /\ ottie.pending[1] # "none"
  /\ 2 \in ottie.ended /\ ottie.layers # <<>>
  /\ \A i \in 1..Len(ottie.layers) : ottie.layers[i] = 2

\* C33: in every reachable state the layers of the creation come from one
\* load: ottie_creation_load_file discards the layers and attributes of
\* the earlier document before the new document is parsed.
C33_LayersOfOneLoad ==
  \A i, j \in 1..Len(ottie.layers) : ottie.layers[i] = ottie.layers[j]

\* the layers of a document without frame rate outlive the next load: the
\* list holds layers of the first and of the second load
C33_LayersOfTwoLoads ==
  /\ ottie.nloads = 2 /\ ottie.ended = {1, 2} /\ ottie.frame_rate = 0
  /\ Len(ottie.layers) >= 2
  /\ ottie.layers[1] = 1 /\ ottie.layers[Len(ottie.layers)] = 2

\* ---------------------------------------------------------------------------
\* ottie/ottietrimshape.c: the trim shape.  Its three values are percentages
\* (start, end) and degrees (offset); a position on the path is kept as a
\* numerator over TrimScale, the common denominator of x / 100 and y / 360,
\* times the length of the path, so the arithmetic below is exact.  The
\* values drawn are those whose quotients lie on a whole number or at least
\* 1/20 away from one, where the rounding of the double division cannot
\* change floor ().
Percents == { 10 * k : k \in 0..10 } \cup {25, 75}

Degrees == {0, 90, 180}

\* what gsk_path_measure_get_length reports
PathLengths == {1, 5}

TrimScale == 3600

\* ottie_trim_shape_init: start 0, end 100, offset 0; nothing selected yet
TrimShape0 ==
  [phase |-> "created", start |-> 0, end |-> 100, offset |-> 0,
   length |-> 0, from |-> 0, to |-> 0]

MIN(a, b) == IF a < b THEN a ELSE b

MAX(a, b) == IF a > b THEN a ELSE b

\* x -= floor (x), for x = num / TrimScale: the numerator of the fractional part
FloorOff(num) == num % TrimScale

\* ottie_trim_shape_snapshot: the segment handed to gsk_path_builder_add_segment
ottie_trim_shape_snapshot(self, len) ==
  LET turn == 10 * self.offset
      head == FloorOff(36 * self.start + turn) * len
      tail == FloorOff(36 * self.end + turn) * len
  IN  [self EXCEPT !.phase = "snapshot", !.length = len,
                   !.from = MIN(head, tail), !.to = MAX(head, tail)]

TrimFrame == UNCHANGED <<stroke, sd, bufs, builder, walk, ev, sub, ottie>>

TrimInit ==
  /\ StrokerIdle
  /\ sub = SubIdle
  /\ ottie = OttieIdle
  /\ trim = TrimShape0

\* ottie_trim_shape_parse: "s", "e" and "o" of the document replace the values
TrimParse ==
  /\ trim.phase = "created"
  /\ \E s \in Percents, e \in Percents, o \in Degrees :
       trim' = [trim EXCEPT !.phase = "parsed", !.start = s, !.end = e, !.offset = o]
  /\ TrimFrame

\* the render of a frame: ottie_trim_shape_snapshot on the path collected so far
TrimSnapshot ==
  /\ trim.phase \in {"created", "parsed"}
  /\ \E len \in PathLengths : trim' = ottie_trim_shape_snapshot(trim, len)
  /\ TrimFrame

TrimNext == TrimParse \/ TrimSnapshot

TrimSpec == TrimInit /\ [][TrimNext]_vars

\* the claimed segment: from min(s,e)/100 to max(s,e)/100 of the length
SelectsBetween(lo, hi) ==
  /\ 100 * trim.from = lo * trim.length * TrimScale
  /\ 100 * trim.to = hi * trim.length * TrimScale

\* C34: for a trim shape with start s% and end e% (0 <= s, e <= 100) and
\* offset 0, the snapshot selects the part of the path between the fractions
\* min(s,e)/100 and max(s,e)/100 of its length; in particular the initial
\* values start 0, end 100 select the whole path.  The code takes the
\* fractional part of s/100 and e/100, which sends 100% to 0: the initial
\* values select the empty segment [0, 0].
C34_TrimSelectsBetweenFractions ==
  (trim.phase = "snapshot" /\ trim.offset = 0) =>
    SelectsBetween(MIN(trim.start, trim.end), MAX(trim.start, trim.end))

\* C34, what the code does: a value of 100% counts as 0%, every other value
\* of 0..99 as itself
TrimSelectsWrapped ==
  (trim.phase = "snapshot" /\ trim.offset = 0) =>
    SelectsBetween(MIN(trim.start % 100, trim.end % 100),
                   MAX(trim.start % 100, trim.end % 100))

\* C34: the initial values have been rendered and nothing was selected
TrimInitialSelectsNothing ==
  /\ trim.phase = "snapshot" /\ trim.length = 5
  /\ trim.start = 0 /\ trim.end = 100 /\ trim.offset = 0
  /\ trim.from = 0 /\ trim.to = 0

\* the fill count n of the array float t[5] of subdivide_and_add_curve at
\* level MAX_SUBDIVISION: the two entries 0 and 1 and the curvature points
FillCount(curve) == 2 + Len(cubic_curvature_points(curve, SubGrid))

\* C35: cubic_curvature_points returns at most 3 parameters, each strictly
\* inside (0,1), so the split-parameter array of 5 entries of
\* subdivide_and_add_curve is never overrun: its fill count n satisfies
\* 2 <= n <= 5 for every cubic, and after the sort the array still starts
\* with 0 and ends with 1.
C35_CurvaturePointsFitArray ==
  sub.curve.op = "curve" =>
    /\ Len(cubic_curvature_points(sub.curve, SubGrid)) <= 3
    /\ \A i \in 1..Len(cubic_curvature_points(sub.curve, SubGrid)) :
         InOpenUnit(cubic_curvature_points(sub.curve, SubGrid)[i])
    /\ FillCount(sub.curve) \in 2..5
    /\ Len(FirstLevelParams(sub.curve)) = FillCount(sub.curve)
    /\ FirstLevelParams(sub.curve)[1] = <<0, 1>>
    /\ FirstLevelParams(sub.curve)[FillCount(sub.curve)] = <<1, 1>>

\* a cubic that fills the array: three curvature points, n = 5, subdivided
C35_Witness ==
  /\ sub.phase = "done" /\ sub.curve.op = "curve"
  /\ FillCount(sub.curve) = 5
  /\ \A i \in 1..3 : InOpenUnit(cubic_curvature_points(sub.curve, SubGrid)[i])
  /\ Len(sub.pieces) >= 4

\* a cubic with a root outside (0,1) left out: fewer than three points
C35_WitnessFiltered ==
  /\ sub.phase = "done" /\ sub.curve.op = "curve"
  /\ FillCount(sub.curve) \in {3, 4}

====
